---------------------------- MODULE Spec2Model ----------------------------
(***************************************************************************)
(* A model of the B-field of onecodex/rust-bfield: the combinatorial       *)
(* marker codec (combinatorial.rs), one bit-array member                   *)
(* (bfield_member.rs, member.rs) and the cascade of members (bfield.rs).   *)
(*                                                                         *)
(* Scaling.  The code works on 128-bit words (u128) with a marker table of *)
(* 200000 entries per kappa.  The model keeps the code's arithmetic but on *)
(* words of WordBits bits, and keeps the ordering the code's constants     *)
(* have:  C(128,1) < C(128,2) < MARKER_TABLE_SIZE <= C(128,kappa) for      *)
(* every kappa in 3..9.  All word arithmetic is taken modulo 2^WordBits.   *)
(***************************************************************************)
EXTENDS Integers, Sequences, FiniteSets

VARIABLES
    members,    \* BField.members: the bit store of each member, as the set of its one-bits
    read_only,  \* BField.read_only
    last,       \* history: the last operation, its arguments, its result, the stores before it
    inserted,   \* history: the <<key, value>> pairs given to BFieldMember::insert so far
    codec,      \* the codec harness: the last codec call, its arguments and its result
    build,      \* the build protocol's position: key -> value map, current pass, keys left
    filenames,  \* BFieldMember.filename of each member
    disk,       \* the directory of the cascade: file name -> the store the file holds
    debug_assertions,  \* cfg!(debug_assertions): whether debug_assert! is compiled in
    params,     \* BFieldMember.params: n_hashes, marker_width, n_marker_bits of every member
    lazy,       \* static MARKER_TABLES: the state of the Lazy cell and the tables it holds
    threads     \* the threads that call into the library: each one's position and locals

vars == <<members, read_only, last, inserted, codec, build, filenames, disk, debug_assertions,
          params, lazy, threads>>

---------------------------------------------------------------------------
(* Bounds *)

\* width of the codec's machine word (u128 in the code), scaled
WordBits == 8

\* size - marker_width of the primary member: the number of window offsets
PrimarySpan == 4

\* number of entries beyond C(WordBits, 2) in the scaled marker table
TableSlack == 5

\* width of u64, the type of choose's arguments and result, scaled: wide
\* enough that no choose made by unrank overflows, as in the code; u128, the
\* type of choose's multiplicative branch, is twice as wide
ChooseBits == 14

\* the file indices a directory may hold: 0 .. MaxFiles - 1
MaxFiles == 4

\* the number of threads that call into the library at once
NThreads == 2

---------------------------------------------------------------------------
(* Arithmetic used to state properties: the exact binomial, by Pascal's rule *)

RECURSIVE Binom(_, _)
Binom(n, k) ==
    IF k = 0 THEN 1
    ELSE IF n < k THEN 0
    ELSE Binom(n - 1, k - 1) + Binom(n - 1, k)

Min(a, b) == IF a < b THEN a ELSE b

Max(a, b) == IF a < b THEN b ELSE a

---------------------------------------------------------------------------
(* Machine words *)

\* u128: values are in 0 .. WordMod - 1
WordMod == 2 ^ WordBits

\* u128::MAX
WordMax == WordMod - 1

\* a | b
RECURSIVE BitOr(_, _)
BitOr(a, b) ==
    IF a = 0 THEN b
    ELSE IF b = 0 THEN a
    ELSE Max(a % 2, b % 2) + 2 * BitOr(a \div 2, b \div 2)

\* a & b
RECURSIVE BitAnd(_, _)
BitAnd(a, b) ==
    IF a = 0 \/ b = 0 THEN 0
    ELSE (a % 2) * (b % 2) + 2 * BitAnd(a \div 2, b \div 2)

\* x.count_ones()
RECURSIVE count_ones(_)
count_ones(x) == IF x = 0 THEN 0 ELSE (x % 2) + count_ones(x \div 2)

\* x.trailing_zeros(): the word width for x = 0
RECURSIVE trailing_zeros(_)
trailing_zeros(x) ==
    IF x = 0 THEN WordBits
    ELSE IF x % 2 = 1 THEN 0
    ELSE 1 + trailing_zeros(x \div 2)

\* x.leading_zeros()
RECURSIVE BitLength(_)
BitLength(x) == IF x = 0 THEN 0 ELSE 1 + BitLength(x \div 2)

leading_zeros(x) == WordBits - BitLength(x)

\* marker & (1 << i) != 0
TestBit(x, i) == (x \div (2 ^ i)) % 2 = 1

---------------------------------------------------------------------------
(* combinatorial.rs *)

\* the result of a call that panicked
Panic == -1

\* assert!(k > 0 && k < 10): the exclusive upper limit of kappa, scaled so
\* that C(WordBits, kappa) >= MARKER_TABLE_SIZE for every kappa in 3 .. limit - 1
KappaLimit == WordBits - 2

Kappas == 1 .. (KappaLimit - 1)

\* const MARKER_TABLE_SIZE: 200_000 in the code, which lies between
\* C(128, 2) = 8128 and C(128, 3) = 341376
MARKER_TABLE_SIZE == Binom(WordBits, 2) + TableSlack

\* debug builds panic where next_rank's arithmetic overflows: t + 1 overflows
\* exactly when (!t & (t + 1)) - 1 and the shift do
next_rank_overflows(marker) == BitOr(marker, marker - 1) = WordMax

next_rank_bad(marker) ==
    LET t == BitOr(marker, marker - 1)
        t1 == (t + 1) % WordMod
        low == (BitAnd(WordMax - t, t1) - 1) % WordMod
        shift == trailing_zeros(marker) % WordBits
    IN  BitOr(t1, low \div (2 ^ shift))

\* next_rank in a build without overflow checks: + and - wrap, and a shift
\* by the word width or more is taken modulo the word width
next_rank(marker) ==
    LET t == BitOr(marker, marker - 1)
        t1 == (t + 1) % WordMod
        low == (BitAnd(WordMax - t, t1) - 1) % WordMod
        shift == (trailing_zeros(marker) + 1) % WordBits
    IN  BitOr(t1, low \div (2 ^ shift))

table_size_whole(k) == MARKER_TABLE_SIZE

\* the number of entries the initializer fills for kappa = k
table_size(k) ==
    IF k = 1 THEN Binom(WordBits, 1)
    ELSE IF k = 2 THEN Binom(WordBits, 2)
    ELSE MARKER_TABLE_SIZE

\* the initializer's loop for kappa = k: table holds the entries 0 .. i - 1
\* (as a sequence, entry i at index i + 1); entry i < table_size is the
\* next_rank of entry i - 1, the entries from table_size on are left 0
RECURSIVE table_fill(_, _)
table_fill(k, table) ==
    IF Len(table) >= MARKER_TABLE_SIZE THEN table
    ELSE table_fill(k, Append(table,
                              IF Len(table) < table_size(k)
                              THEN next_rank(table[Len(table)])
                              ELSE 0))

\* the initializer's outer loop, for k in 1..10: m holds the tables of
\* the kappas below k
RECURSIVE tables_fill(_, _)
tables_fill(m, k) ==
    IF k >= KappaLimit THEN m
    ELSE tables_fill(Append(m, table_fill(k, <<(2 ^ k) - 1>>)), k + 1)

\* static MARKER_TABLES: for each kappa a table of MARKER_TABLE_SIZE words,
\* entry 0 the kappa low bits
MARKER_TABLES == tables_fill(<<>>, 1)

\* MARKER_TABLES[&k][i]
table_entry(k, i) == MARKER_TABLES[k][i + 1]

\* the Lazy cell of MARKER_TABLES before its first use: no tables, and the
\* initializer has run no times
LazyUninit == [state |-> "uninit", tables |-> <<>>, runs |-> 0]

\* the loop of rank's streaming branch: n more iterations from marker; a
\* marker of 0 ends the loop at once
RECURSIVE rank_stream(_, _)
rank_stream(marker, n) ==
    IF n = 0 \/ marker = 0 THEN marker
    ELSE LET stepped == next_rank(marker)
         IN  IF stepped = 0 THEN stepped ELSE rank_stream(stepped, n - 1)

\* whether that loop steps over an overflowing next_rank
RECURSIVE rank_stream_overflows(_, _)
rank_stream_overflows(marker, n) ==
    IF n = 0 \/ marker = 0 THEN FALSE
    ELSE IF next_rank_overflows(marker) THEN TRUE
    ELSE LET stepped == next_rank(marker)
         IN  IF stepped = 0 THEN FALSE ELSE rank_stream_overflows(stepped, n - 1)

rank_bad(value, k) ==
    IF value >= MARKER_TABLE_SIZE
    THEN rank_stream(table_entry(k, MARKER_TABLE_SIZE - 1), value - MARKER_TABLE_SIZE + 2)
    ELSE table_entry(k, value)

\* the body of rank on the tables a thread sees: MARKER_TABLES[&k] panics
\* for a k the map does not hold
rank_in(tables, value, k) ==
    IF k > Len(tables) THEN Panic
    ELSE IF value >= MARKER_TABLE_SIZE
    THEN rank_stream(tables[k][MARKER_TABLE_SIZE], value - MARKER_TABLE_SIZE)
    ELSE tables[k][value + 1]

\* rank(value, k), for 0 < k < KappaLimit
rank(value, k) == rank_in(MARKER_TABLES, value, k)

rank_overflows(value, k) ==
    /\ value >= MARKER_TABLE_SIZE
    /\ rank_stream_overflows(table_entry(k, MARKER_TABLE_SIZE - 1), value - MARKER_TABLE_SIZE)

\* u64, in which choose computes its closed forms and returns its result
NarrowMod == 2 ^ ChooseBits

\* u128, in which choose's multiplicative branch computes
WideMod == 2 ^ (2 * ChooseBits)

\* a.wrapping_mul(b) in a type of mod values, by doubling over the bits of
\* the smaller factor, so that no intermediate value leaves 0 .. 2 * mod
RECURSIVE wrapping_mul(_, _, _)
wrapping_mul(a, b, mod) ==
    IF a < b THEN wrapping_mul(b, a, mod)
    ELSE IF b = 0 THEN 0
    ELSE LET twice == (2 * wrapping_mul(a, b \div 2, mod)) % mod
         IN  IF b % 2 = 1 THEN (twice + a) % mod ELSE twice

\* whether a * b overflows a type of mod values
mul_overflows(a, b, mod) == a # 0 /\ b > (mod - 1) \div a

\* a.wrapping_mul(b) in u64
narrow_mul(a, b) == (a * b) % NarrowMod

\* n.wrapping_sub(j) in u64
narrow_sub(n, j) == (n - j) % NarrowMod

\* whether a subtraction or a multiplication of the closed form for k
\* overflows, from the factor n - j on; acc is the product so far
RECURSIVE closed_product_overflows(_, _, _, _)
closed_product_overflows(n, k, j, acc) ==
    IF j >= k THEN FALSE
    ELSE \/ n < j
         \/ acc * (n - j) >= NarrowMod
         \/ closed_product_overflows(n, k, j + 1, (acc * (n - j)) % NarrowMod)

\* the multiplicative branch of choose (k >= 8) from iteration i on, in
\* wrapping u128 arithmetic: the final num / denom, or Panic where the code
\* divides by a denom that wrapped to zero
RECURSIVE choose_loop(_, _, _, _, _)
choose_loop(n, k, i, num, denom) ==
    IF i > k THEN (IF denom = 0 THEN Panic ELSE num \div denom)
    ELSE LET num1 == wrapping_mul(num, (n + 1 - i) % WideMod, WideMod)
         IN  IF num1 % i = 0
             THEN choose_loop(n, k, i + 1, num1 \div i, denom)
             ELSE LET denom1 == wrapping_mul(denom, i, WideMod)
                  IN  IF denom1 = 0 THEN Panic
                      ELSE IF num1 % denom1 = 0
                           THEN choose_loop(n, k, i + 1, num1 \div denom1, 1)
                           ELSE choose_loop(n, k, i + 1, num1, denom1)

\* whether an operation of that loop overflows
RECURSIVE choose_loop_overflows(_, _, _, _, _)
choose_loop_overflows(n, k, i, num, denom) ==
    IF i > k THEN FALSE
    ELSE LET factor == (n + 1 - i) % WideMod
             num1 == wrapping_mul(num, factor, WideMod)
         IN  \/ n + 1 < i
             \/ mul_overflows(num, factor, WideMod)
             \/ IF num1 % i = 0
                THEN choose_loop_overflows(n, k, i + 1, num1 \div i, denom)
                ELSE LET denom1 == wrapping_mul(denom, i, WideMod)
                     IN  \/ mul_overflows(denom, i, WideMod)
                         \/ IF denom1 = 0 THEN FALSE
                            ELSE IF num1 % denom1 = 0
                                 THEN choose_loop_overflows(n, k, i + 1, num1 \div denom1, 1)
                                 ELSE choose_loop_overflows(n, k, i + 1, num1, denom1)

\* choose(n, k) in a build without overflow checks: the closed forms for
\* k <= 7 in wrapping u64 arithmetic, the multiplicative branch otherwise,
\* whose result panics when it does not fit u64
choose(n, k) ==
    CASE k = 0 -> 1
      [] k = 1 -> n
      [] k = 2 -> narrow_mul(n, narrow_sub(n, 1)) \div 2
      [] k = 3 -> narrow_mul(narrow_mul(n, narrow_sub(n, 1)), narrow_sub(n, 2)) \div 6
      [] k = 4 -> narrow_mul(narrow_mul(narrow_mul(n, narrow_sub(n, 1)), narrow_sub(n, 2)),
                             narrow_sub(n, 3)) \div 24
      [] k = 5 -> narrow_mul(narrow_mul(narrow_mul(narrow_mul(n, narrow_sub(n, 1)),
                                                   narrow_sub(n, 2)),
                                        narrow_sub(n, 3)),
                             narrow_sub(n, 4)) \div 120
      [] k = 6 -> narrow_mul(narrow_mul(narrow_mul(narrow_mul(narrow_mul(n, narrow_sub(n, 1)),
                                                              narrow_sub(n, 2)),
                                                   narrow_sub(n, 3)),
                                        narrow_sub(n, 4)),
                             narrow_sub(n, 5)) \div 720
      [] k = 7 -> narrow_mul(narrow_mul(narrow_mul(narrow_mul(narrow_mul(
                                 narrow_mul(n, narrow_sub(n, 1)),
                                                              narrow_sub(n, 2)),
                                                   narrow_sub(n, 3)),
                                        narrow_sub(n, 4)),
                             narrow_sub(n, 5)), narrow_sub(n, 6)) \div 5040
      [] OTHER -> LET q == choose_loop(n, k, 1, 1, 1)
                  IN  IF q = Panic \/ q >= NarrowMod THEN Panic ELSE q

\* whether choose(n, k) panics in a build that checks overflow
choose_overflows(n, k) ==
    IF k <= 1 THEN FALSE
    ELSE IF k <= 7 THEN closed_product_overflows(n, k, 1, n)
    ELSE choose_loop_overflows(n, k, 1, 1, 1)

RECURSIVE unrank_bad_loop(_, _, _)
unrank_bad_loop(working_marker, value, idx) ==
    IF working_marker = 0 THEN value
    ELSE LET r == trailing_zeros(working_marker)
         IN  unrank_bad_loop(working_marker - (2 ^ r), value + choose(r, idx), idx + 1)

unrank_bad(marker) == unrank_bad_loop(marker, 0, 0)

\* the loop of unrank
RECURSIVE unrank_loop(_, _, _)
unrank_loop(working_marker, value, idx) ==
    IF working_marker = 0 THEN value
    ELSE LET r == trailing_zeros(working_marker)
         IN  unrank_loop(working_marker - (2 ^ r), value + choose(r, idx + 1), idx + 1)

\* unrank(marker)
unrank(marker) == unrank_loop(marker, 0, 0)

---------------------------------------------------------------------------
(* bfield_member.rs, member.rs: one member *)

\* the arguments of BField::create in the model: a primary member of
\* marker_width + PrimarySpan bits, nu one bit narrower than the word, so
\* that the value domain C(nu, kappa) reaches past the marker table as it
\* does for nu = 64, kappa = 4 in the code
CreateArgs ==
    [size |-> (WordBits - 1) + PrimarySpan,
     n_hashes |-> 2,
     marker_width |-> WordBits - 1,
     n_marker_bits |-> 3,
     secondary_scaledown |-> <<9, 10>>,
     max_scaledown |-> <<1, 4>>,
     n_secondaries |-> 3]

\* the BFieldParams that BFieldMember::create makes of its arguments
create_params(args) ==
    [n_hashes |-> args.n_hashes,
     marker_width |-> args.marker_width,
     n_marker_bits |-> args.n_marker_bits]

\* BFieldParams.n_hashes (k)
n_hashes == params.n_hashes

\* BFieldParams.marker_width (nu)
marker_width == params.marker_width

\* BFieldParams.n_marker_bits (kappa)
n_marker_bits == params.n_marker_bits

\* usize arithmetic wraps modulo 2^64 in the code: half a word
UsizeMod == 2 ^ (WordBits \div 2)

\* a key is known to a member only by murmurhash3_x64_128(key, 0) = (h0, h1):
\* the keys of the model are three such pairs
Keys == {<<0, 0>>, <<1, 2>>, <<UsizeMod - 2, 3>>}

\* enum BFieldLookup
Indeterminate == <<"Indeterminate", 0>>

Some(v) == <<"Some", v>>

None == <<"None", 0>>

\* BFieldMember::create: a store of size bits, all zero
member_create(size) == [bitvec |-> {}, size |-> size]

marker_pos_over_whole_size(hash, n, total_size, marker_size) ==
    ((hash[1] + ((n * hash[2]) % UsizeMod)) % UsizeMod) % total_size

\* marker_pos(hash, n, total_size, marker_size)
marker_pos(hash, n, total_size, marker_size) ==
    ((hash[1] + ((n * hash[2]) % UsizeMod)) % UsizeMod) % (total_size - marker_size)

set_range_overwrite(bitvec, pos, width, marker) ==
    (bitvec \ (pos .. (pos + width - 1)))
        \cup {pos + width - 1 - i : i \in {j \in 0 .. (width - 1) : TestBit(marker, j)}}

\* the store after bitvec.set_range(pos .. pos + width, marker): bit i of the
\* marker is ORed into position pos + width - 1 - i; the loop stops after the
\* marker's highest one-bit
set_range(bitvec, pos, width, marker) ==
    bitvec \cup {pos + width - 1 - i :
                    i \in {j \in 0 .. (width - 1) :
                              /\ j <= WordBits - leading_zeros(marker)
                              /\ TestBit(marker, j)}}

\* bitvec.get_range(pos .. pos + width), from slice index i on: the one-bit at
\* slice index i is bit width - i - 1 of the result
RECURSIVE get_range_from(_, _, _, _)
get_range_from(bitvec, pos, width, i) ==
    IF i >= width THEN 0
    ELSE (IF (pos + i) \in bitvec THEN 2 ^ (width - i - 1) ELSE 0)
         + get_range_from(bitvec, pos, width, i + 1)

get_range(bitvec, pos, width) == get_range_from(bitvec, pos, width, 0)

\* the loop of insert_raw from window marker_ix on
RECURSIVE insert_raw_from(_, _, _, _)
insert_raw_from(m, key, marker, marker_ix) ==
    IF marker_ix >= n_hashes THEN m
    ELSE LET pos == marker_pos(key, marker_ix, m.size, marker_width)
             m1 == [m EXCEPT !.bitvec = set_range(m.bitvec, pos, marker_width, marker)]
         IN  insert_raw_from(m1, key, marker, marker_ix + 1)

RECURSIVE insert_raw_xor_from(_, _, _, _)
insert_raw_xor_from(m, key, marker, marker_ix) ==
    IF marker_ix >= n_hashes THEN m
    ELSE LET pos == marker_pos(key, marker_ix, m.size, marker_width)
             bits == set_range({}, pos, marker_width, marker)
             m1 == [m EXCEPT !.bitvec = (m.bitvec \ bits) \cup (bits \ m.bitvec)]
         IN  insert_raw_xor_from(m1, key, marker, marker_ix + 1)

insert_raw_xor(m, key, marker) == insert_raw_xor_from(m, key, marker, 0)

insert_raw_one_window_more(m, key, marker) ==
    LET m1 == insert_raw_from(m, key, marker, 0)
        pos == marker_pos(key, n_hashes, m.size, marker_width)
    IN  [m1 EXCEPT !.bitvec = set_range(m1.bitvec, pos, marker_width, marker)]

\* BFieldMember::insert_raw(key, marker): the member afterwards
insert_raw(m, key, marker) == insert_raw_from(m, key, marker, 0)

member_insert_first_wins(m, key, value) ==
    IF get_range(m.bitvec, marker_pos(key, 0, m.size, marker_width), marker_width) # 0
    THEN m
    ELSE insert_raw(m, key, rank(value, n_marker_bits))

\* BFieldMember::insert(key, value): the member afterwards
member_insert(m, key, value) == insert_raw(m, key, rank(value, n_marker_bits))

RECURSIVE get_raw_from_keeping_partial(_, _, _, _, _)
get_raw_from_keeping_partial(m, key, k, merged_marker, marker_ix) ==
    IF marker_ix >= n_hashes THEN merged_marker
    ELSE LET pos == marker_pos(key, marker_ix, m.size, marker_width)
             merged == BitAnd(merged_marker, get_range(m.bitvec, pos, marker_width))
         IN  IF count_ones(merged) < k THEN merged_marker
             ELSE get_raw_from_keeping_partial(m, key, k, merged, marker_ix + 1)

\* the second loop of get_raw from window marker_ix on
RECURSIVE get_raw_from(_, _, _, _, _)
get_raw_from(m, key, k, merged_marker, marker_ix) ==
    IF marker_ix >= n_hashes THEN merged_marker
    ELSE LET pos == marker_pos(key, marker_ix, m.size, marker_width)
             merged == BitAnd(merged_marker, get_range(m.bitvec, pos, marker_width))
         IN  IF count_ones(merged) < k THEN 0
             ELSE get_raw_from(m, key, k, merged, marker_ix + 1)

\* BFieldMember::get_raw(key, k)
get_raw(m, key, k) == get_raw_from(m, key, k, WordMax, 0)

\* BFieldMember::get(key)
member_get(m, key) ==
    LET putative_marker == get_raw(m, key, n_marker_bits)
    IN  IF count_ones(putative_marker) > n_marker_bits THEN Indeterminate
        ELSE IF count_ones(putative_marker) = n_marker_bits
             THEN Some(unrank(putative_marker))
             ELSE None

\* the while loop of mask_or_insert: the first existing_marker | (1 << pos)
\* that has more one-bits than k
RECURSIVE mask_marker(_, _, _, _)
mask_marker(existing_marker, new_marker, pos, k) ==
    IF count_ones(new_marker) # k THEN new_marker
    ELSE mask_marker(existing_marker, BitOr(existing_marker, 2 ^ pos), pos + 1, k)

\* BFieldMember::mask_or_insert(key, value): the result and the member afterwards
mask_or_insert(m, key, value) ==
    LET correct_marker == rank(value, n_marker_bits)
        k == n_marker_bits
        existing_marker == get_raw(m, key, k)
    IN  IF count_ones(existing_marker) > k THEN [ret |-> FALSE, member |-> m]
        ELSE IF count_ones(existing_marker) = k
             THEN IF existing_marker = correct_marker
                  THEN [ret |-> TRUE, member |-> m]
                  ELSE [ret |-> FALSE,
                        member |-> insert_raw(m, key,
                                     mask_marker(existing_marker, existing_marker, 0, k))]
             ELSE [ret |-> TRUE, member |-> insert_raw(m, key, correct_marker)]

---------------------------------------------------------------------------
(* bfield.rs: the cascade *)

\* floor(x * num / den) for a scale factor num / den
Scaled(x, factor) == (x * factor[1]) \div factor[2]

RECURSIVE create_from_scaling_primary(_, _, _, _)
create_from_scaling_primary(args, ms, cur_size, n) ==
    IF n >= args.n_secondaries THEN ms
    ELSE create_from_scaling_primary(args, Append(ms, member_create(cur_size)),
                                     Max(Scaled(args.size, args.secondary_scaledown),
                                         Scaled(args.size, args.max_scaledown)),
                                     n + 1)

\* the loop of BField::create from member n on: each member gets cur_size
\* bits, and the next size is max(cur_size * secondary_scaledown,
\* size * max_scaledown), truncated to an integer
RECURSIVE create_from(_, _, _, _)
create_from(args, ms, cur_size, n) ==
    IF n >= args.n_secondaries THEN ms
    ELSE create_from(args, Append(ms, member_create(cur_size)),
                     Max(Scaled(cur_size, args.secondary_scaledown),
                         Scaled(args.size, args.max_scaledown)),
                     n + 1)

\* BField::create: the members of the new cascade
bfield_create(args) == create_from(args, <<>>, args.size, 0)

\* the loop of BField::insert over members[..pass], from member j on (members
\* are numbered from 0 in the code and indexed from 1 here): TRUE when every
\* one of them answers Indeterminate
RECURSIVE earlier_all_indeterminate(_, _, _, _)
earlier_all_indeterminate(ms, key, pass, j) ==
    IF j >= pass THEN TRUE
    ELSE IF member_get(ms[j + 1], key) = Indeterminate
         THEN earlier_all_indeterminate(ms, key, pass, j + 1)
         ELSE FALSE

bfield_insert_skips_on_some_only(ms, key, value, pass) ==
    IF \E j \in 1 .. pass : member_get(ms[j], key)[1] = "Some"
    THEN [ret |-> FALSE, members |-> ms]
    ELSE [ret |-> TRUE,
          members |-> [ms EXCEPT ![pass + 1] = member_insert(ms[pass + 1], key, value)]]

\* BField::insert(key, value, pass): the result and the members afterwards
bfield_insert(ms, key, value, pass) ==
    IF pass > 0 /\ ~earlier_all_indeterminate(ms, key, pass, 0)
    THEN [ret |-> FALSE, members |-> ms]
    ELSE [ret |-> TRUE,
          members |-> [ms EXCEPT ![pass + 1] = member_insert(ms[pass + 1], key, value)]]

\* the loop of BField::get from member j on
RECURSIVE bfield_get_from(_, _, _)
bfield_get_from(ms, key, j) ==
    IF j >= Len(ms) THEN None
    ELSE LET answer == member_get(ms[j + 1], key)
         IN  IF answer = Indeterminate THEN bfield_get_from(ms, key, j + 1)
             ELSE answer

RECURSIVE bfield_get_skips_none(_, _, _)
bfield_get_skips_none(ms, key, j) ==
    IF j >= Len(ms) THEN None
    ELSE LET answer == member_get(ms[j + 1], key)
         IN  IF answer[1] = "Some" THEN answer
             ELSE bfield_get_skips_none(ms, key, j + 1)

bfield_get_from_zero_skipping(ms, key) == bfield_get_skips_none(ms, key, 0)

\* BField::get(key): Some(value) or None
bfield_get(ms, key) == bfield_get_from(ms, key, 0)

\* the loop of BField::force_insert from member j on: the members afterwards
RECURSIVE force_insert_from(_, _, _, _)
force_insert_from(ms, key, value, j) ==
    IF j >= Len(ms) THEN ms
    ELSE LET r == mask_or_insert(ms[j + 1], key, value)
             ms1 == [ms EXCEPT ![j + 1] = r.member]
         IN  IF r.ret THEN ms1
             ELSE force_insert_from(ms1, key, value, j + 1)

force_insert_every_member(ms, key, value) ==
    [j \in 1 .. Len(ms) |-> mask_or_insert(ms[j], key, value).member]

\* BField::force_insert(key, value): the members afterwards
force_insert(ms, key, value) == force_insert_from(ms, key, value, 0)

\* a call that does not return: a failed debug_assert!, or a write to a store
\* that BFieldMember::open mapped read-only; no bit has changed
Failed(ms) == [failed |-> TRUE, ret |-> FALSE, members |-> ms]

insert_call_ignoring_flag(ms, key, value, pass, ro, debug) ==
    LET r == bfield_insert(ms, key, value, pass)
    IN  [failed |-> FALSE, ret |-> r.ret, members |-> r.members]

\* BField::insert on a cascade whose flag is ro, in a build with (debug) or
\* without debug assertions: the debug_assert! on the flag, then the body,
\* which fails at members[pass].insert when the stores are read-only
insert_call(ms, key, value, pass, ro, debug) ==
    IF ro /\ debug THEN Failed(ms)
    ELSE LET r == bfield_insert(ms, key, value, pass)
         IN  IF ro /\ r.ret THEN Failed(ms)
             ELSE [failed |-> FALSE, ret |-> r.ret, members |-> r.members]

\* whether BFieldMember::mask_or_insert reaches insert_raw
mask_or_insert_writes(m, key, value) ==
    LET correct_marker == rank(value, n_marker_bits)
        k == n_marker_bits
        existing_marker == get_raw(m, key, k)
    IN  /\ count_ones(existing_marker) <= k
        /\ ~(count_ones(existing_marker) = k /\ existing_marker = correct_marker)

\* whether the loop of BField::force_insert reaches a write, from member j on
RECURSIVE force_insert_writes_from(_, _, _, _)
force_insert_writes_from(ms, key, value, j) ==
    IF j >= Len(ms) THEN FALSE
    ELSE IF mask_or_insert_writes(ms[j + 1], key, value) THEN TRUE
    ELSE IF mask_or_insert(ms[j + 1], key, value).ret THEN FALSE
    ELSE force_insert_writes_from(ms, key, value, j + 1)

force_insert_call_ignoring_flag(ms, key, value, ro, debug) ==
    [failed |-> FALSE, ret |-> FALSE, members |-> force_insert(ms, key, value)]

\* BField::force_insert on a cascade whose flag is ro, in a build with or
\* without debug assertions
force_insert_call(ms, key, value, ro, debug) ==
    IF ro /\ (debug \/ force_insert_writes_from(ms, key, value, 0)) THEN Failed(ms)
    ELSE [failed |-> FALSE, ret |-> FALSE, members |-> force_insert(ms, key, value)]

---------------------------------------------------------------------------
(* bfield.rs: the files of a cascade.  A file name is the sequence of its   *)
(* characters; the directory is a function from file names to stores.      *)

\* the digits of format!("{n}")
Digits == <<"0", "1", "2", "3", "4", "5", "6", "7", "8", "9">>

\* format!("{n}"): n in decimal
RECURSIVE format_decimal(_)
format_decimal(n) ==
    IF n < 10 THEN <<Digits[n + 1]>>
    ELSE Append(format_decimal(n \div 10), Digits[(n % 10) + 1])

\* ".bfd"
BfdExtension == <<".", "b", "f", "d">>

\* format!("{n}.bfd")
numbered_extension(n) == format_decimal(n) \o BfdExtension

\* format!("{filename}.{n}.bfd"): the file of member n in BField::create
create_file(filename, n) == filename \o <<".">> \o numbered_extension(n)

\* the file names BField::create gives the members 0 .. n - 1
create_files(filename, n) == [i \in 1 .. n |-> create_file(filename, i - 1)]

\* str::ends_with
ends_with(s, suffix) ==
    /\ Len(s) >= Len(suffix)
    /\ SubSeq(s, Len(s) - Len(suffix) + 1, Len(s)) = suffix

\* str::replace(from, to): every match of from, left to right and without
\* overlap, replaced by to
RECURSIVE str_replace(_, _, _)
str_replace(s, from, to) ==
    IF Len(s) < Len(from) THEN s
    ELSE IF SubSeq(s, 1, Len(from)) = from
         THEN to \o str_replace(SubSeq(s, Len(from) + 1, Len(s)), from, to)
         ELSE <<Head(s)>> \o str_replace(Tail(s), from, to)

\* the loop of BField::load from index n on: ms holds the members opened so
\* far, each with the file it was opened from
RECURSIVE load_from(_, _, _, _)
load_from(dir, main_db_filename, n, ms) ==
    LET member_filename ==
            str_replace(main_db_filename, numbered_extension(0), numbered_extension(n))
    IN  IF member_filename \notin DOMAIN dir THEN ms
        ELSE load_from(dir, main_db_filename, n + 1,
                       Append(ms, [filename |-> member_filename,
                                   member |-> dir[member_filename]]))

\* BField::load(main_db_path, _): the members opened, none when the result
\* is the NotFound error
bfield_load(dir, main_db_filename) == load_from(dir, main_db_filename, 0, <<>>)

\* the loop of BField::persist_to_disk from member j on: each member's store
\* is written to the member's file
RECURSIVE persist_from(_, _, _, _)
persist_from(dir, ms, names, j) ==
    IF j >= Len(ms) THEN dir
    ELSE persist_from([f \in DOMAIN dir \cup {names[j + 1]} |->
                          IF f = names[j + 1] THEN ms[j + 1] ELSE dir[f]],
                      ms, names, j + 1)

\* BField::persist_to_disk: the directory afterwards
persist_to_disk(dir, ms, names) == persist_from(dir, ms, names, 0)

\* the filename argument of BField::create in the tests: "bfield"
DefaultStem == <<"b", "f", "i", "e", "l", "d">>

\* an empty directory
EmptyDir == [f \in {} |-> f]

---------------------------------------------------------------------------
(* The cascade as a state machine: a cascade made by create, then any       *)
(* sequence of insert, force_insert and get calls.  A call leaves its       *)
(* arguments, its result and the members it started from in the history     *)
(* variable last; the next call starts once the caller has taken them.      *)

\* the in-domain values of the cascade's calls: the smallest, and the first
\* one past the marker table
Values == {0, MARKER_TABLE_SIZE}

\* the passes of the cascade
Passes == 0 .. (CreateArgs.n_secondaries - 1)

NoOp ==
    [op |-> "none", key |-> <<0, 0>>, value |-> 0, pass |-> 0,
     ret |-> FALSE, got |-> None, pre |-> <<>>, path |-> <<>>]

CodecIdle == [op |-> "none", kappa |-> 1, value |-> 0, arg |-> 0, out |-> 0]

BuildIdle == [kv |-> <<>>, pass |-> 0, todo |-> {}]

Init ==
    /\ members = bfield_create(CreateArgs)
    /\ read_only = FALSE
    /\ last = NoOp
    /\ inserted = {}
    /\ codec = CodecIdle
    /\ build = BuildIdle
    /\ filenames = create_files(DefaultStem, CreateArgs.n_secondaries)
    /\ disk = EmptyDir
    /\ debug_assertions = TRUE
    /\ params = create_params(CreateArgs)
    /\ lazy = LazyUninit
    /\ threads = <<>>

\* bfield.insert(key, value, pass), under its debug assertion on pass
Insert(key, value, pass) ==
    /\ last.op = "none"
    /\ pass < Len(members)
    /\ LET r == insert_call(members, key, value, pass, read_only, debug_assertions)
       IN  /\ members' = r.members
           /\ last' = [op |-> IF r.failed THEN "insert_failed" ELSE "insert",
                       key |-> key, value |-> value, pass |-> pass,
                       ret |-> r.ret, got |-> None, pre |-> members, path |-> <<>>]
    /\ UNCHANGED <<read_only, inserted, codec, build, filenames, disk, debug_assertions, params, lazy, threads>>

\* bfield.force_insert(key, value)
ForceInsert(key, value) ==
    /\ last.op = "none"
    /\ LET r == force_insert_call(members, key, value, read_only, debug_assertions)
       IN  /\ members' = r.members
           /\ last' = [op |-> IF r.failed THEN "force_insert_failed" ELSE "force_insert",
                       key |-> key, value |-> value, pass |-> 0,
                       ret |-> FALSE, got |-> None, pre |-> members, path |-> <<>>]
    /\ UNCHANGED <<read_only, inserted, codec, build, filenames, disk, debug_assertions, params, lazy, threads>>

\* bfield.get(key)
Get(key) ==
    /\ last.op = "none"
    /\ last' = [op |-> "get", key |-> key, value |-> 0, pass |-> 0,
                ret |-> FALSE, got |-> bfield_get(members, key), pre |-> members, path |-> <<>>]
    /\ UNCHANGED <<members, read_only, inserted, codec, build, filenames, disk, debug_assertions, params, lazy, threads>>

\* the caller takes the result of the last call
Return ==
    /\ last.op # "none"
    /\ last' = NoOp
    /\ UNCHANGED <<members, read_only, inserted, codec, build, filenames, disk, debug_assertions, params, lazy, threads>>

Next ==
    \/ \E key \in Keys, value \in Values, pass \in Passes : Insert(key, value, pass)
    \/ \E key \in Keys, value \in Values : ForceInsert(key, value)
    \/ \E key \in Keys : Get(key)
    \/ Return

Spec == Init /\ [][Next]_vars

---------------------------------------------------------------------------
(* Claims about the cascade, checked under Spec *)

\* the answers of the members of ms for key, in member order
Answers(ms, key) == [j \in 1 .. Len(ms) |-> member_get(ms[j], key)]

\* the members of ms, by index, that do not answer Indeterminate for key
Decided(ms, key) == {j \in 1 .. Len(ms) : Answers(ms, key)[j] # Indeterminate}

\* the least element of a non-empty set of numbers
Least(S) == CHOOSE x \in S : \A y \in S : x <= y

\* the positions of a store of size bits that receive a one-bit when marker
\* is ORed into the n_hashes windows of key
MarkerBits(size, key, marker) ==
    {b \in 0 .. (size - 1) :
        \E i \in 0 .. (n_hashes - 1) :
            LET pos == marker_pos(key, i, size, marker_width)
            IN  /\ pos <= b
                /\ b < pos + marker_width
                /\ TestBit(marker, pos + marker_width - 1 - b)}

\* C3: cascade get returns the answer of the first member that is not
\* Indeterminate, Some or None alike, and None when every member is Indeterminate.
CascadeGetFirstDecided ==
    last.op = "get" =>
        IF Decided(last.pre, last.key) = {}
        THEN last.got = None
        ELSE last.got = Answers(last.pre, last.key)[Least(Decided(last.pre, last.key))]

\* C3 witness: a get that passed an Indeterminate primary and took the value
\* of the second member
CascadeGetFirstDecidedWitness ==
    /\ last.op = "get"
    /\ Answers(last.pre, last.key)[1] = Indeterminate
    /\ Answers(last.pre, last.key)[2][1] = "Some"
    /\ last.got = Answers(last.pre, last.key)[2]

\* a get that stopped at a None of the second member although the third has a value
CascadeGetStopsAtNone ==
    /\ last.op = "get"
    /\ Answers(last.pre, last.key)[1] = Indeterminate
    /\ Answers(last.pre, last.key)[2] = None
    /\ Answers(last.pre, last.key)[3][1] = "Some"
    /\ last.got = None

\* a get for which every member is Indeterminate
CascadeGetAllIndeterminate ==
    /\ last.op = "get"
    /\ Decided(last.pre, last.key) = {}
    /\ last.got = None

\* C4: insert(key, value, pass) returns false and changes nothing when a
\* member before pass answers other than Indeterminate; otherwise it returns
\* true and ORs the marker of value into the windows of member pass only.
InsertSkipsOrWritesPass ==
    last.op = "insert" =>
        IF \E j \in 1 .. last.pass : Answers(last.pre, last.key)[j] # Indeterminate
        THEN /\ last.ret = FALSE
             /\ members = last.pre
        ELSE /\ last.ret = TRUE
             /\ Len(members) = Len(last.pre)
             /\ \A j \in 1 .. Len(members) :
                   /\ members[j].size = last.pre[j].size
                   /\ members[j].bitvec =
                         IF j = last.pass + 1
                         THEN last.pre[j].bitvec
                                 \cup MarkerBits(last.pre[j].size, last.key,
                                                 rank(last.value, n_marker_bits))
                         ELSE last.pre[j].bitvec

\* C4 witness: an insert at the last pass that found every earlier member
\* Indeterminate and wrote new bits into the last member
InsertSkipsOrWritesPassWitness ==
    /\ last.op = "insert"
    /\ last.pass = 2
    /\ Answers(last.pre, last.key)[1] = Indeterminate
    /\ Answers(last.pre, last.key)[2] = Indeterminate
    /\ last.ret = TRUE
    /\ members[3] # last.pre[3]

\* an insert at the last pass skipped because the second member answers None
InsertSkippedOnNone ==
    /\ last.op = "insert"
    /\ last.pass = 2
    /\ Answers(last.pre, last.key)[1] = Indeterminate
    /\ Answers(last.pre, last.key)[2] = None
    /\ last.ret = FALSE

\* C5: insert returns false when the value was already present in the
\* cascade, and true only when the call newly inserted it.
InsertReturnsWhetherNew ==
    last.op = "insert" =>
        /\ bfield_get(last.pre, last.key) = Some(last.value) => last.ret = FALSE
        /\ last.ret = TRUE => members # last.pre

\* what the code does instead: at pass 0 it returns true whatever the
\* cascade holds
InsertAtPassZeroReturnsTrue ==
    (last.op = "insert" /\ last.pass = 0) => last.ret = TRUE

\* an identical second insert at pass 0: nothing changes and it returns true
InsertRepeatedReturnsTrue ==
    /\ last.op = "insert"
    /\ last.pass = 0
    /\ bfield_get(last.pre, last.key) = Some(last.value)
    /\ members = last.pre
    /\ last.ret = TRUE

\* the members of ms, by index, whose mask_or_insert(key, value) returns true
Accepting(ms, key, value) ==
    {j \in 1 .. Len(ms) : mask_or_insert(ms[j], key, value).ret}

\* C17: force_insert(key, value) calls mask_or_insert on the members in order
\* up to and including the first that returns true; the members after it are
\* untouched and every member before it answers Indeterminate for key
\* afterwards; when none returns true, every member answers Indeterminate.
ForceInsertStopsAtFirstTrue ==
    last.op = "force_insert" =>
        LET acc == Accepting(last.pre, last.key, last.value)
            stop == IF acc = {} THEN Len(last.pre) + 1 ELSE Least(acc)
        IN  /\ Len(members) = Len(last.pre)
            /\ \A j \in 1 .. Len(members) :
                  /\ j < stop =>
                        /\ members[j] = mask_or_insert(last.pre[j], last.key, last.value).member
                        /\ member_get(members[j], last.key) = Indeterminate
                  /\ j = stop =>
                        members[j] = mask_or_insert(last.pre[j], last.key, last.value).member
                  /\ j > stop => members[j] = last.pre[j]

\* C17 witness: the primary is poisoned, the second member takes the value,
\* and the third, where the call would have written, is left as it was
ForceInsertStopsAtFirstTrueWitness ==
    /\ last.op = "force_insert"
    /\ Least(Accepting(last.pre, last.key, last.value) \cup {Len(last.pre) + 1}) = 2
    /\ members[1] # last.pre[1]
    /\ members[2] # last.pre[2]
    /\ members[3] = last.pre[3]
    /\ mask_or_insert(last.pre[3], last.key, last.value).member # last.pre[3]

\* a force_insert that no member accepted
ForceInsertNoneAccepts ==
    /\ last.op = "force_insert"
    /\ Accepting(last.pre, last.key, last.value) = {}
    /\ members # last.pre
    /\ Decided(members, last.key) = {}

---------------------------------------------------------------------------
(* One member as a state machine: a member made by BFieldMember::create,    *)
(* then any sequence of insert, mask_or_insert and get calls                *)

\* the in-domain values of the member's calls: the two smallest, and the
\* first one past the marker table
MemberValues == {0, 1, MARKER_TABLE_SIZE}

\* the values of the member's mask_or_insert calls: the smallest, and the
\* first two past the marker table (all below C(marker_width, n_marker_bits))
MaskValues == {0, MARKER_TABLE_SIZE, MARKER_TABLE_SIZE + 1}

InitMember ==
    /\ members = <<member_create(CreateArgs.size)>>
    /\ read_only = FALSE
    /\ last = NoOp
    /\ inserted = {}
    /\ codec = CodecIdle
    /\ build = BuildIdle
    /\ filenames = create_files(DefaultStem, 1)
    /\ disk = EmptyDir
    /\ debug_assertions = TRUE
    /\ params = create_params(CreateArgs)
    /\ lazy = LazyUninit
    /\ threads = <<>>

\* member.insert(key, value)
MemberInsert(key, value) ==
    /\ last.op = "none"
    /\ members' = <<member_insert(members[1], key, value)>>
    /\ inserted' = inserted \cup {<<key, value>>}
    /\ last' = [op |-> "member_insert", key |-> key, value |-> value, pass |-> 0,
                ret |-> FALSE, got |-> None, pre |-> members, path |-> <<>>]
    /\ UNCHANGED <<read_only, codec, build, filenames, disk, debug_assertions, params, lazy, threads>>

\* member.mask_or_insert(key, value)
MemberMaskOrInsert(key, value) ==
    /\ last.op = "none"
    /\ LET r == mask_or_insert(members[1], key, value)
       IN  /\ members' = <<r.member>>
           /\ last' = [op |-> "mask_or_insert", key |-> key, value |-> value, pass |-> 0,
                       ret |-> r.ret, got |-> None, pre |-> members, path |-> <<>>]
    /\ UNCHANGED <<read_only, inserted, codec, build, filenames, disk, debug_assertions, params, lazy, threads>>

\* member.get(key)
MemberGet(key) ==
    /\ last.op = "none"
    /\ last' = [op |-> "member_get", key |-> key, value |-> 0, pass |-> 0,
                ret |-> FALSE, got |-> member_get(members[1], key), pre |-> members, path |-> <<>>]
    /\ UNCHANGED <<members, read_only, inserted, codec, build, filenames, disk, debug_assertions, params, lazy, threads>>

NextMember ==
    \/ \E key \in Keys, value \in MemberValues : MemberInsert(key, value)
    \/ \E key \in Keys, value \in MaskValues : MemberMaskOrInsert(key, value)
    \/ \E key \in Keys : MemberGet(key)
    \/ Return

SpecMember == InitMember /\ [][NextMember]_vars

\* the member under insert alone
NextInsert ==
    \/ \E key \in Keys, value \in MemberValues : MemberInsert(key, value)
    \/ \E key \in Keys : MemberGet(key)
    \/ Return

SpecInsert == InitMember /\ [][NextInsert]_vars

---------------------------------------------------------------------------
(* Claims about one member *)

\* C2 (checked under SpecInsert): once insert(key, v) has run, get(key) is
\* Some(v) or Indeterminate after every further sequence of inserts.
MemberNoFalseNegative ==
    \A p \in inserted : member_get(members[1], p[1]) \in {Some(p[2]), Indeterminate}

\* the same for the values served from the marker table
MemberNoFalseNegativeInTable ==
    \A p \in inserted :
        p[2] < MARKER_TABLE_SIZE =>
            member_get(members[1], p[1]) \in {Some(p[2]), Indeterminate}

\* an inserted key is never answered None, whatever its value
MemberInsertedNeverNone ==
    \A p \in inserted : member_get(members[1], p[1]) # None

\* C10 (checked under SpecMember): no insert and no mask_or_insert turns a
\* one-bit into a zero-bit, so the number of one-bits never decreases.
MemberBitsMonotone ==
    last.op \in {"member_insert", "mask_or_insert"} =>
        /\ last.pre[1].bitvec \subseteq members[1].bitvec
        /\ Cardinality(last.pre[1].bitvec) <= Cardinality(members[1].bitvec)
        /\ members[1].bitvec \subseteq 0 .. (members[1].size - 1)

\* C10 witness: a mask_or_insert that poisoned a key of a non-empty store
MemberBitsMonotoneWitness ==
    /\ last.op = "mask_or_insert"
    /\ last.ret = FALSE
    /\ last.pre[1].bitvec # {}
    /\ last.pre[1].bitvec # members[1].bitvec
    /\ last.pre[1].bitvec \subseteq members[1].bitvec

\* an insert whose windows already held other bits, all of them kept
MemberInsertOverOthers ==
    /\ last.op = "member_insert"
    /\ \E b \in last.pre[1].bitvec :
          /\ b \notin MarkerBits(members[1].size, last.key, rank(last.value, n_marker_bits))
          /\ \E i \in 0 .. (n_hashes - 1) :
                LET pos == marker_pos(last.key, i, members[1].size, marker_width)
                IN  pos <= b /\ b < pos + marker_width
    /\ last.pre[1].bitvec # members[1].bitvec

\* C11 (checked under SpecMember): a second insert(key, v), in any state
\* reached after the first, changes no bit: the store, its bit count and the
\* answer of get for every key stay as they were.
MemberInsertIdempotent ==
    \A p \in inserted :
        LET again == member_insert(members[1], p[1], p[2])
        IN  /\ again.bitvec = members[1].bitvec
            /\ Cardinality(again.bitvec) = Cardinality(members[1].bitvec)
            /\ \A key \in Keys : member_get(again, key) = member_get(members[1], key)

\* C11 witness: a second insert of a pair, after an insert of another pair
\* in between, that left the store as it was
MemberInsertIdempotentWitness ==
    /\ last.op = "member_insert"
    /\ Cardinality(inserted) >= 2
    /\ MarkerBits(members[1].size, last.key, rank(last.value, n_marker_bits))
           \subseteq last.pre[1].bitvec
    /\ member_get(last.pre[1], last.key) = Some(last.value)
    /\ members = last.pre

\* the member after the inserts of a set of <<key, value>> pairs, in one
\* fixed order
RECURSIVE insert_all(_, _)
insert_all(m, pairs) ==
    IF pairs = {} THEN m
    ELSE LET p == CHOOSE q \in pairs : TRUE
         IN  member_insert(insert_all(m, pairs \ {p}), p[1], p[2])

\* C12 (checked under SpecInsert): whatever the order, and the repetitions,
\* of the inserts made so far, the store is the one their fixed-order
\* sequence gives.
MemberInsertOrderFree ==
    members[1] = insert_all(member_create(CreateArgs.size), inserted)

\* C12 witness: three pairs inserted, the last of them not the last of the
\* fixed order, over windows that already held bits of the others
MemberInsertOrderFreeWitness ==
    /\ last.op = "member_insert"
    /\ Cardinality(inserted) = 3
    /\ <<last.key, last.value>> # (CHOOSE q \in inserted : TRUE)
    /\ members # last.pre
    /\ \E i \in 0 .. (n_hashes - 1) :
          get_range(last.pre[1].bitvec,
                    marker_pos(last.key, i, members[1].size, marker_width),
                    marker_width) # 0

\* the windows of key in a store of size bits all start at one position, or
\* no two of them share a bit
WindowsApart(size, key) ==
    \A i, j \in 0 .. (n_hashes - 1) :
        LET pi == marker_pos(key, i, size, marker_width)
            pj == marker_pos(key, j, size, marker_width)
        IN  pi = pj \/ pi + marker_width <= pj \/ pj + marker_width <= pi

\* no window of key holds a one-bit
WindowsEmpty(m, key) ==
    \A i \in 0 .. (n_hashes - 1) :
        get_range(m.bitvec, marker_pos(key, i, m.size, marker_width), marker_width) = 0

\* C13 (checked under SpecMember): mask_or_insert(key, value) on a key that
\* get answers Indeterminate returns false, on a key that get answers
\* Some(value) returns true, and in both cases no bit changes.
MaskOrInsertLeavesDecided ==
    last.op = "mask_or_insert" =>
        /\ member_get(last.pre[1], last.key) = Indeterminate =>
              (last.ret = FALSE /\ members = last.pre)
        /\ member_get(last.pre[1], last.key) = Some(last.value) =>
              (last.ret = TRUE /\ members = last.pre)

\* the same for the values served from the marker table
MaskOrInsertLeavesDecidedInTable ==
    (last.op = "mask_or_insert" /\ last.value < MARKER_TABLE_SIZE) =>
        /\ member_get(last.pre[1], last.key) = Indeterminate =>
              (last.ret = FALSE /\ members = last.pre)
        /\ member_get(last.pre[1], last.key) = Some(last.value) =>
              (last.ret = TRUE /\ members = last.pre)

\* an Indeterminate key is left alone whatever the value
MaskOrInsertLeavesIndeterminate ==
    (last.op = "mask_or_insert" /\ member_get(last.pre[1], last.key) = Indeterminate) =>
        (last.ret = FALSE /\ members = last.pre)

\* what the code does past the table: the key is left alone when get answers
\* the value before the one given
MaskOrInsertPastTableIsOneBehind ==
    (last.op = "mask_or_insert" /\ last.value >= MARKER_TABLE_SIZE
        /\ member_get(last.pre[1], last.key)[1] = "Some") =>
        IF member_get(last.pre[1], last.key) = Some(last.value - 1)
        THEN last.ret = TRUE /\ members = last.pre
        ELSE last.ret = FALSE /\ members # last.pre

\* a key that answers Some(value) and is masked all the same
MaskOrInsertMasksRightValue ==
    /\ last.op = "mask_or_insert"
    /\ member_get(last.pre[1], last.key) = Some(last.value)
    /\ last.ret = FALSE
    /\ member_get(members[1], last.key) = Indeterminate

\* the position of the lowest zero bit of a word
LowestZeroBit(e) ==
    CHOOSE z \in 0 .. WordBits : ~TestBit(e, z) /\ \A j \in 0 .. (z - 1) : TestBit(e, j)

\* C14 (checked under SpecMember): mask_or_insert(key, value) on a key that
\* get answers Some(w), w # value, returns false, ORs the existing marker and
\* its lowest zero bit, which lies inside the window, into every window of
\* the key, leaves get(key) Indeterminate, and a second call returns false.
MaskOrInsertPoisons ==
    (last.op = "mask_or_insert"
        /\ member_get(last.pre[1], last.key)[1] = "Some"
        /\ member_get(last.pre[1], last.key) # Some(last.value)) =>
        LET e == get_raw(last.pre[1], last.key, n_marker_bits)
            z == LowestZeroBit(e)
        IN  /\ last.ret = FALSE
            /\ z < marker_width
            /\ members[1].size = last.pre[1].size
            /\ members[1].bitvec =
                  last.pre[1].bitvec \cup MarkerBits(last.pre[1].size, last.key, e + 2 ^ z)
            /\ member_get(members[1], last.key) = Indeterminate
            /\ mask_or_insert(members[1], last.key, last.value).ret = FALSE

\* the same for the values served from the marker table
MaskOrInsertPoisonsInTable ==
    (last.op = "mask_or_insert"
        /\ last.value < MARKER_TABLE_SIZE
        /\ member_get(last.pre[1], last.key)[1] = "Some"
        /\ member_get(last.pre[1], last.key) # Some(last.value)) =>
        LET e == get_raw(last.pre[1], last.key, n_marker_bits)
            z == LowestZeroBit(e)
        IN  /\ last.ret = FALSE
            /\ z < marker_width
            /\ members[1].size = last.pre[1].size
            /\ members[1].bitvec =
                  last.pre[1].bitvec \cup MarkerBits(last.pre[1].size, last.key, e + 2 ^ z)
            /\ member_get(members[1], last.key) = Indeterminate
            /\ mask_or_insert(members[1], last.key, last.value).ret = FALSE

\* a key with another value in the table, poisoned
MaskOrInsertPoisonsReached ==
    /\ last.op = "mask_or_insert"
    /\ last.value < MARKER_TABLE_SIZE
    /\ member_get(last.pre[1], last.key)[1] = "Some"
    /\ member_get(last.pre[1], last.key) # Some(last.value)
    /\ last.ret = FALSE
    /\ member_get(members[1], last.key) = Indeterminate

\* a key that answers the value before the one given, past the table, and is
\* taken for right
MaskOrInsertKeepsWrongValue ==
    /\ last.op = "mask_or_insert"
    /\ member_get(last.pre[1], last.key) = Some(last.value - 1)
    /\ last.ret = TRUE
    /\ members = last.pre

\* C15 (checked under SpecMember): mask_or_insert(key, value) on a key that
\* get answers None returns true and leaves the store as insert(key, value)
\* would; when the key's windows were empty and do not run into one another,
\* get(key) is Some(value) afterwards.
MaskOrInsertInsertsOnNone ==
    (last.op = "mask_or_insert" /\ member_get(last.pre[1], last.key) = None) =>
        /\ last.ret = TRUE
        /\ members[1] = member_insert(last.pre[1], last.key, last.value)
        /\ (WindowsEmpty(last.pre[1], last.key) /\ WindowsApart(last.pre[1].size, last.key)) =>
              member_get(members[1], last.key) = Some(last.value)

\* the part that does not depend on the codec: the call is a plain insert
MaskOrInsertOnNoneIsInsert ==
    (last.op = "mask_or_insert" /\ member_get(last.pre[1], last.key) = None) =>
        /\ last.ret = TRUE
        /\ members[1].size = last.pre[1].size
        /\ members[1].bitvec =
              last.pre[1].bitvec
                 \cup MarkerBits(last.pre[1].size, last.key, rank(last.value, n_marker_bits))

\* the whole statement for the values served from the marker table
MaskOrInsertInsertsOnNoneInTable ==
    (last.op = "mask_or_insert" /\ last.value < MARKER_TABLE_SIZE
        /\ member_get(last.pre[1], last.key) = None) =>
        /\ last.ret = TRUE
        /\ members[1] = member_insert(last.pre[1], last.key, last.value)
        /\ (WindowsEmpty(last.pre[1], last.key) /\ WindowsApart(last.pre[1].size, last.key)) =>
              member_get(members[1], last.key) = Some(last.value)

\* a fresh key given a value of the table: Some(value) afterwards
MaskOrInsertFreshKey ==
    /\ last.op = "mask_or_insert"
    /\ last.value < MARKER_TABLE_SIZE
    /\ WindowsEmpty(last.pre[1], last.key)
    /\ WindowsApart(last.pre[1].size, last.key)
    /\ last.ret = TRUE
    /\ member_get(members[1], last.key) = Some(last.value)

\* a fresh key given the first value past the table: the value before it
\* afterwards
MaskOrInsertFreshKeyPastTable ==
    /\ last.op = "mask_or_insert"
    /\ WindowsEmpty(last.pre[1], last.key)
    /\ WindowsApart(last.pre[1].size, last.key)
    /\ last.value = MARKER_TABLE_SIZE
    /\ member_get(members[1], last.key) = Some(last.value - 1)

---------------------------------------------------------------------------
(* The build protocol: every pair at pass 0, then every pair at pass 1, ... *)

\* the cascades built: every map from the keys to the member's values
InitBuild ==
    /\ members = bfield_create(CreateArgs)
    /\ read_only = FALSE
    /\ last = NoOp
    /\ inserted = {}
    /\ codec = CodecIdle
    /\ \E kv \in [Keys -> MemberValues] : build = [kv |-> kv, pass |-> 0, todo |-> Keys]
    /\ filenames = create_files(DefaultStem, CreateArgs.n_secondaries)
    /\ disk = EmptyDir
    /\ debug_assertions = TRUE
    /\ params = create_params(CreateArgs)
    /\ lazy = LazyUninit
    /\ threads = <<>>

\* the next insert of the current pass, in any order of the keys
BuildInsert ==
    /\ build.pass < Len(members)
    /\ \E key \in build.todo :
          /\ members' = bfield_insert(members, key, build.kv[key], build.pass).members
          /\ build' = IF build.todo = {key}
                      THEN [build EXCEPT !.pass = build.pass + 1, !.todo = Keys]
                      ELSE [build EXCEPT !.todo = build.todo \ {key}]
    /\ UNCHANGED <<read_only, last, inserted, codec, filenames, disk, debug_assertions, params, lazy, threads>>

\* a lookup once the build is over
BuildGet ==
    /\ build.pass = Len(members)
    /\ last.op = "none"
    /\ \E key \in Keys :
          last' = [op |-> "get", key |-> key, value |-> build.kv[key], pass |-> 0,
                   ret |-> FALSE, got |-> bfield_get(members, key), pre |-> members, path |-> <<>>]
    /\ UNCHANGED <<members, read_only, inserted, codec, build, filenames, disk, debug_assertions, params, lazy, threads>>

NextBuild == BuildInsert \/ BuildGet \/ Return

SpecBuild == InitBuild /\ [][NextBuild]_vars

\* C1: after the build, get(key) is Some(the key's value) for every key, or
\* None when every member answers Indeterminate for the key.
BuildThenGet ==
    (build.pass = Len(members) /\ last.op = "get") =>
        \/ last.got = Some(build.kv[last.key])
        \/ /\ last.got = None
           /\ Decided(members, last.key) = {}

\* the same for the keys whose value is served from the marker table
BuildThenGetInTable ==
    (build.pass = Len(members) /\ last.op = "get"
        /\ build.kv[last.key] < MARKER_TABLE_SIZE) =>
        \/ last.got = Some(build.kv[last.key])
        \/ /\ last.got = None
           /\ Decided(members, last.key) = {}

\* what a key with a value past the table gets: the value before it
BuildThenGetPastTable ==
    (build.pass = Len(members) /\ last.op = "get"
        /\ build.kv[last.key] >= MARKER_TABLE_SIZE) =>
        \/ last.got = Some(build.kv[last.key] - 1)
        \/ /\ last.got = None
           /\ Decided(members, last.key) = {}

\* a key the primary left Indeterminate, resolved by a later member
BuildPromotedKey ==
    /\ build.pass = Len(members)
    /\ last.op = "get"
    /\ Answers(members, last.key)[1] = Indeterminate
    /\ last.got = Some(build.kv[last.key])

---------------------------------------------------------------------------
(* The codec harness: calls of rank, unrank and next_rank on bounded inputs *)

\* the values given to rank for kappa = k: the whole domain of the word and
\* a few values beyond it
CodecValues(k) == 0 .. (Max(Binom(WordBits, k), MARKER_TABLE_SIZE) + 2)

\* what a call rank(value, k) can produce: the wrapped result, or a panic in
\* a build that checks overflow
rank_outcomes(value, k) ==
    {rank(value, k)} \cup (IF rank_overflows(value, k) THEN {Panic} ELSE {})

\* what a call next_rank(marker) can produce, for marker # 0
next_rank_outcomes(marker) ==
    {next_rank(marker)} \cup (IF next_rank_overflows(marker) THEN {Panic} ELSE {})

\* what a call choose(n, k) can produce: the wrapped result, or a panic in a
\* build that checks overflow
choose_outcomes(n, k) ==
    {choose(n, k)} \cup (IF choose_overflows(n, k) THEN {Panic} ELSE {})

\* the arguments given to choose: large enough that C(n, n \div 2) does not
\* fit the type of the multiplicative branch
ChooseArgs == 0 .. (2 * ChooseBits + 6)

\* the harness starts on an input: a (kappa, value) pair for rank, a
\* non-zero word for next_rank, or an (n, k) pair for choose
InitCodec ==
    /\ members = <<>>
    /\ read_only = FALSE
    /\ last = NoOp
    /\ inserted = {}
    /\ build = BuildIdle
    /\ filenames = <<>>
    /\ disk = EmptyDir
    /\ debug_assertions = TRUE
    /\ params = create_params(CreateArgs)
    /\ lazy = LazyUninit
    /\ threads = <<>>
    /\ \/ \E k \in Kappas : \E v \in CodecValues(k) :
             codec = [op |-> "rank_input", kappa |-> k, value |-> v, arg |-> v, out |-> 0]
       \/ \E m \in 1 .. WordMax :
             codec = [op |-> "next_rank_input", kappa |-> count_ones(m), value |-> 0,
                      arg |-> m, out |-> 0]
       \/ \E n \in ChooseArgs, k \in ChooseArgs :
             codec = [op |-> "choose_input", kappa |-> k, value |-> n, arg |-> n, out |-> 0]

\* rank(value, kappa) on the input
CodecRank ==
    /\ codec.op = "rank_input"
    /\ \E m \in rank_outcomes(codec.value, codec.kappa) :
          codec' = [codec EXCEPT !.op = "rank", !.out = m]
    /\ UNCHANGED <<members, read_only, last, inserted, build, filenames, disk, debug_assertions, params, lazy, threads>>

\* unrank on the marker the last rank returned
CodecUnrank ==
    /\ codec.op = "rank"
    /\ codec.out # Panic
    /\ codec' = [codec EXCEPT !.op = "unrank", !.arg = codec.out, !.out = unrank(codec.out)]
    /\ UNCHANGED <<members, read_only, last, inserted, build, filenames, disk, debug_assertions, params, lazy, threads>>

\* next_rank on the input word
CodecNextRank ==
    /\ codec.op = "next_rank_input"
    /\ \E r \in next_rank_outcomes(codec.arg) :
          codec' = [codec EXCEPT !.op = "next_rank", !.out = r]
    /\ UNCHANGED <<members, read_only, last, inserted, build, filenames, disk, debug_assertions, params, lazy, threads>>

\* choose(n, k) on the input
CodecChoose ==
    /\ codec.op = "choose_input"
    /\ \E r \in choose_outcomes(codec.value, codec.kappa) :
          codec' = [codec EXCEPT !.op = "choose", !.out = r]
    /\ UNCHANGED <<members, read_only, last, inserted, build, filenames, disk, debug_assertions, params, lazy, threads>>

NextCodec == CodecRank \/ CodecUnrank \/ CodecNextRank \/ CodecChoose

SpecCodec == InitCodec /\ [][NextCodec]_vars

---------------------------------------------------------------------------
(* Claims about the codec, checked under SpecCodec *)

\* the 64-bit marker width of the codec's round-trip test, scaled: a width
\* below the word's, with C(width, kappa) above the table size for some kappa
TestWidth == WordBits - 1

\* C6: for every kappa and every v below min(MARKER_TABLE_SIZE, C(TestWidth, kappa)),
\* unrank(rank(v, kappa)) = v, and no other value of that range has the same marker.
CodecRoundTrip ==
    (codec.op = "unrank" /\ codec.value < Min(MARKER_TABLE_SIZE, Binom(TestWidth, codec.kappa)))
        => /\ codec.out = codec.value
           /\ \A w \in 0 .. (Min(MARKER_TABLE_SIZE, Binom(TestWidth, codec.kappa)) - 1) :
                 w # codec.value => rank(w, codec.kappa) # codec.arg

\* C6 witness: the round trip of the last table entry for kappa = 3
CodecRoundTripWitness ==
    /\ codec.op = "unrank"
    /\ codec.kappa = 3
    /\ codec.value = MARKER_TABLE_SIZE - 1
    /\ codec.value < Binom(TestWidth, 3)
    /\ codec.out = codec.value

\* C7: rank(0, kappa) = 2^kappa - 1, and for 0 < v < C(WordBits, kappa),
\* rank(v, kappa) = next_rank(rank(v - 1, kappa)), differs from rank(v - 1, kappa)
\* and unranks to v, across the table boundary too.
RankRecurrence ==
    codec.op = "rank" =>
        /\ codec.value = 0 => codec.out = (2 ^ codec.kappa) - 1
        /\ (0 < codec.value /\ codec.value < Binom(WordBits, codec.kappa)) =>
              /\ codec.out = next_rank(rank(codec.value - 1, codec.kappa))
              /\ codec.out # rank(codec.value - 1, codec.kappa)
              /\ unrank(codec.out) = codec.value

\* the recurrence restricted to the values served from the table
RankRecurrenceInTable ==
    (codec.op = "rank" /\ 0 < codec.value /\ codec.value < MARKER_TABLE_SIZE
        /\ codec.value < Binom(WordBits, codec.kappa)) =>
        /\ codec.out = next_rank(rank(codec.value - 1, codec.kappa))
        /\ unrank(codec.out) = codec.value

\* what the streaming branch returns in the domain: the marker of value - 1
RankStreamingIsOneBehind ==
    (codec.op = "rank" /\ codec.value >= MARKER_TABLE_SIZE
        /\ codec.value < Binom(WordBits, codec.kappa)) =>
        unrank(codec.out) = codec.value - 1

\* C8: for kappa < nu <= WordBits and v < C(nu, kappa), rank(v, kappa) has
\* exactly kappa one-bits and is below 2^nu.
RankFitsWindow ==
    codec.op = "rank" =>
        \A nu \in (codec.kappa + 1) .. WordBits :
            codec.value < Binom(nu, codec.kappa) =>
                /\ codec.out # Panic
                /\ count_ones(codec.out) = codec.kappa
                /\ codec.out < 2 ^ nu

\* C8 witness: the last value of a domain that reaches past the table
RankFitsWindowWitness ==
    /\ codec.op = "rank"
    /\ codec.kappa = 3
    /\ codec.value >= MARKER_TABLE_SIZE
    /\ codec.value = Binom(TestWidth, 3) - 1
    /\ count_ones(codec.out) = 3
    /\ codec.out < 2 ^ TestWidth

\* the largest word of weight k: the k high bits
MaxPattern(k) == WordMod - 2 ^ (WordBits - k)

\* C9: for a non-zero word m that is not the largest of its weight,
\* next_rank(m) is the smallest word above m with the same number of one-bits.
NextRankIsSuccessor ==
    (codec.op = "next_rank" /\ codec.arg # MaxPattern(count_ones(codec.arg))) =>
        /\ codec.out > codec.arg
        /\ codec.out <= WordMax
        /\ count_ones(codec.out) = count_ones(codec.arg)
        /\ \A x \in (codec.arg + 1) .. (codec.out - 1) :
              count_ones(x) # count_ones(codec.arg)

\* C9 witness: next_rank(0b1000101) = 0b1000110
NextRankIsSuccessorWitness ==
    /\ codec.op = "next_rank"
    /\ codec.arg = 69
    /\ codec.out = 70

\* the other example of the test: next_rank(0b111) = 0b1011
NextRankExample ==
    (codec.op = "next_rank" /\ codec.arg = 7) => codec.out = 11

\* C(n, j), C(n, j + 1), ... up to C(n, k) for k <= n \div 2, from acc = C(n, j):
\* each is the one before times (n - j) over (j + 1), exactly; the binomials
\* grow with j up to n \div 2, so one that reaches cap stays at cap
RECURSIVE binomial_from(_, _, _, _, _)
binomial_from(n, k, j, acc, cap) ==
    IF j >= k \/ acc >= cap THEN Min(acc, cap)
    ELSE binomial_from(n, k, j + 1, (acc * (n - j)) \div (j + 1), cap)

\* the exact binomial C(n, k), or NarrowMod when it does not fit u64
Binomial(n, k) ==
    IF k > n THEN 0 ELSE binomial_from(n, Min(k, n - k), 0, 1, NarrowMod)

\* C20: for n >= k >= 0 with C(n, k) below 2^64 (NarrowMod here), choose(n, k)
\* returns C(n, k): no panic, and no intermediate product that wraps.
ChooseIsExact ==
    (codec.op = "choose" /\ codec.value >= codec.kappa
        /\ Binomial(codec.value, codec.kappa) < NarrowMod) =>
        codec.out = Binomial(codec.value, codec.kappa)

\* choose is exact wherever none of its operations overflows
ChooseIsExactWithoutOverflow ==
    (codec.op = "choose" /\ codec.value >= codec.kappa
        /\ ~choose_overflows(codec.value, codec.kappa)
        /\ Binomial(codec.value, codec.kappa) < NarrowMod) =>
        codec.out = Binomial(codec.value, codec.kappa)

\* a closed form whose product wrapped: a wrong value although C(n, k) fits
ChooseClosedFormWraps ==
    /\ codec.op = "choose"
    /\ codec.kappa \in 2 .. 7
    /\ codec.value >= codec.kappa
    /\ Binomial(codec.value, codec.kappa) < NarrowMod
    /\ codec.out # Panic
    /\ codec.out # Binomial(codec.value, codec.kappa)

\* the multiplicative branch with a product that does not fit u128, although
\* C(n, k) fits u64
ChooseLoopOverflows ==
    /\ codec.op = "choose"
    /\ codec.kappa >= 8
    /\ codec.value >= codec.kappa
    /\ Binomial(codec.value, codec.kappa) < NarrowMod
    /\ codec.out # Binomial(codec.value, codec.kappa)

\* both branches on arguments that fit: the binomial itself
ChooseExactReached ==
    /\ codec.op = "choose"
    /\ codec.kappa = 9
    /\ codec.value = 16
    /\ codec.out = 11440

---------------------------------------------------------------------------
(* Loading: a directory that holds some of the files of a cascade, then a   *)
(* call of BField::load on a primary file name                              *)

\* the filename arguments of create: the one of the tests, one with a digit
\* before the extension, and one that itself holds "0.bfd"
Stems == {DefaultStem, <<"d", "0">>, <<"v", "0", ".", "b", "f", "d">>}

\* the store in the file of index i: the member BField::create makes for it
file_store(i) == bfield_create([CreateArgs EXCEPT !.n_secondaries = MaxFiles])[i + 1]

\* the directory that holds the files of the indices in S of a cascade
\* created with the given filename
directory_of(filename, S) ==
    [f \in {create_file(filename, i) : i \in S} |->
        file_store(CHOOSE i \in S : create_file(filename, i) = f)]

InitLoad ==
    /\ members = <<>>
    /\ read_only = FALSE
    /\ last = NoOp
    /\ inserted = {}
    /\ codec = CodecIdle
    /\ build = BuildIdle
    /\ filenames = <<>>
    /\ debug_assertions = TRUE
    /\ params = create_params(CreateArgs)
    /\ lazy = LazyUninit
    /\ threads = <<>>
    /\ \E filename \in Stems, S \in SUBSET (0 .. (MaxFiles - 1)) :
          disk = directory_of(filename, S)

\* BField::load(path, ro), under its assertion on the file name; the cascade
\* held before is dropped when the call returns one
Load(path, ro) ==
    /\ last.op = "none"
    /\ ends_with(path, numbered_extension(0))
    /\ LET opened == bfield_load(disk, path)
       IN  /\ members' = IF opened = <<>> THEN members
                         ELSE [i \in 1 .. Len(opened) |-> opened[i].member]
           /\ filenames' = IF opened = <<>> THEN filenames
                           ELSE [i \in 1 .. Len(opened) |-> opened[i].filename]
           /\ read_only' = IF opened = <<>> THEN read_only ELSE ro
           /\ last' = [op |-> "load", key |-> <<0, 0>>, value |-> 0, pass |-> 0,
                       ret |-> opened # <<>>, got |-> None, pre |-> members,
                       path |-> path]
    /\ UNCHANGED <<inserted, codec, build, disk, debug_assertions, params, lazy, threads>>

NextLoad ==
    \/ \E filename \in Stems, ro \in BOOLEAN : Load(create_file(filename, 0), ro)
    \/ Return

SpecLoad == InitLoad /\ [][NextLoad]_vars

\* <stem> of a path <stem>.0.bfd
stem_of(path) == SubSeq(path, 1, Len(path) - Len(create_file(<<>>, 0)))

\* the smallest index from i on whose file <stem>.i.bfd is not in dir
RECURSIVE first_missing(_, _, _)
first_missing(dir, stem, i) ==
    IF create_file(stem, i) \in DOMAIN dir THEN first_missing(dir, stem, i + 1) ELSE i

\* load returned the members of the files <stem>.0.bfd .. <stem>.(m-1).bfd,
\* in that order, or the NotFound error when m = 0
LoadedUpTo(stem, m) ==
    IF m = 0 THEN ~last.ret /\ members = last.pre
    ELSE /\ last.ret
         /\ Len(members) = m
         /\ \A i \in 1 .. m :
               /\ filenames[i] = create_file(stem, i - 1)
               /\ members[i] = disk[create_file(stem, i - 1)]

\* C19: load(<stem>.0.bfd) returns the members of the indices 0 .. m - 1 in
\* index order, m the smallest index whose file <stem>.m.bfd does not exist,
\* and the NotFound error when m = 0.
LoadTakesConsecutiveFiles ==
    last.op = "load" =>
        LoadedUpTo(stem_of(last.path), first_missing(disk, stem_of(last.path), 0))

\* the same for the stems that do not themselves hold "0.bfd"
LoadTakesConsecutiveFilesPlainStem ==
    (last.op = "load"
        /\ str_replace(stem_of(last.path), numbered_extension(0), <<>>) = stem_of(last.path)) =>
        LoadedUpTo(stem_of(last.path), first_missing(disk, stem_of(last.path), 0))

\* a stem that holds "0.bfd": the files 0 and 1 exist, and load opens file 0
\* alone
LoadMissesSecondFile ==
    /\ last.op = "load"
    /\ last.ret
    /\ create_file(stem_of(last.path), 1) \in DOMAIN disk
    /\ Len(members) = 1

\* load stops at a gap: the files 0, 1 and 3 exist, and 0 and 1 are opened
LoadStopsAtGap ==
    /\ last.op = "load"
    /\ last.ret
    /\ Len(members) = 2
    /\ create_file(stem_of(last.path), 3) \in DOMAIN disk

\* no primary file: the NotFound error, although later files exist
LoadNotFound ==
    /\ last.op = "load"
    /\ ~last.ret
    /\ create_file(stem_of(last.path), 1) \in DOMAIN disk

---------------------------------------------------------------------------
(* The persist protocol: a cascade created in memory in an empty directory, *)
(* built by inserts, written by persist_to_disk, then dropped and loaded    *)
(* from its primary file; the calls after that are lookups, and the         *)
(* mutating calls on a cascade loaded read-only                             *)

InitPersist ==
    /\ members = bfield_create(CreateArgs)
    /\ read_only = FALSE
    /\ last = NoOp
    /\ inserted = {}
    /\ codec = CodecIdle
    /\ disk = EmptyDir
    /\ debug_assertions \in BOOLEAN
    /\ params = create_params(CreateArgs)
    /\ lazy = LazyUninit
    /\ threads = <<>>
    /\ \E filename \in Stems :
          filenames = create_files(filename, CreateArgs.n_secondaries)
    /\ \E kv \in [Keys -> Values] : build = [kv |-> kv, pass |-> 0, todo |-> Keys]

\* an insert of the build, while the cascade is in memory
PersistBuildInsert ==
    /\ last.op = "none"
    /\ disk = EmptyDir
    /\ BuildInsert

\* bfield.persist_to_disk() on the in-memory cascade: every member is written
\* to its file; the members keep their order and the flag its value
PersistToDisk ==
    /\ last.op = "none"
    /\ disk = EmptyDir
    /\ disk' = persist_to_disk(disk, members, filenames)
    /\ last' = [op |-> "persist", key |-> <<0, 0>>, value |-> 0, pass |-> 0,
                ret |-> read_only, got |-> None, pre |-> members, path |-> <<>>]
    /\ UNCHANGED <<members, read_only, inserted, codec, build, filenames, debug_assertions, params, lazy, threads>>

\* the cascade is dropped, and loaded from its primary file
PersistLoad ==
    /\ disk # EmptyDir
    /\ \E ro \in BOOLEAN : Load(filenames[1], ro)

\* a lookup on the cascade once it is on disk
PersistGet ==
    /\ disk # EmptyDir
    /\ \E key \in Keys : Get(key)

\* insert on a cascade loaded read-only
ReadOnlyInsert ==
    /\ read_only
    /\ \E key \in Keys, value \in Values, pass \in Passes : Insert(key, value, pass)

\* force_insert on a cascade loaded read-only
ReadOnlyForceInsert ==
    /\ read_only
    /\ \E key \in Keys, value \in Values : ForceInsert(key, value)

NextPersist ==
    \/ PersistBuildInsert
    \/ PersistToDisk
    \/ PersistLoad
    \/ PersistGet
    \/ ReadOnlyInsert
    \/ ReadOnlyForceInsert
    \/ Return

SpecPersist == InitPersist /\ [][NextPersist]_vars

\* <stem> of the cascade's primary file
PersistStem == stem_of(filenames[1])

\* a stem that does not hold "0.bfd"
PlainStem(stem) == str_replace(stem, numbered_extension(0), <<>>) = stem

\* the loaded cascade has the members of the cascade held before, and get
\* answers every key as that cascade did
SameCascade ==
    /\ last.ret
    /\ Len(members) = Len(last.pre)
    /\ \A j \in 1 .. Len(members) : members[j].size = last.pre[j].size
    /\ \A key \in Keys : bfield_get(members, key) = bfield_get(last.pre, key)

\* C18: persist_to_disk keeps the member order and the read-only flag, and a
\* load of the primary file after it yields a cascade with as many members,
\* in the same order, whose get answers every key as the in-memory cascade
\* did.
PersistThenLoad ==
    /\ last.op = "persist" => (members = last.pre /\ read_only = last.ret)
    /\ last.op = "load" => SameCascade

\* the same for the stems that do not themselves hold "0.bfd"
PersistThenLoadPlainStem ==
    /\ last.op = "persist" => (members = last.pre /\ read_only = last.ret)
    /\ (last.op = "load" /\ PlainStem(PersistStem)) => SameCascade

\* a built cascade loaded whole: a key the primary leaves Indeterminate is
\* answered by a later member of the loaded cascade
PersistLoadedWhole ==
    /\ last.op = "load"
    /\ build.pass = Len(last.pre)
    /\ Len(members) = CreateArgs.n_secondaries
    /\ \E key \in Keys :
          /\ Answers(members, key)[1] = Indeterminate
          /\ bfield_get(members, key)[1] = "Some"

\* a cascade whose stem holds "0.bfd", loaded as its primary alone: a key
\* the in-memory cascade answered is no longer found
PersistLoadLosesKey ==
    /\ last.op = "load"
    /\ Len(last.pre) = CreateArgs.n_secondaries
    /\ Len(members) = 1
    /\ \E key \in Keys :
          /\ bfield_get(last.pre, key)[1] = "Some"
          /\ bfield_get(members, key) = None

\* a mutating call: insert or force_insert, returned or failed
MutatingCalls == {"insert", "insert_failed", "force_insert", "force_insert_failed"}

ReadOnlyInsertReturns ==
    /\ read_only
    /\ ~debug_assertions
    /\ last.op = "insert"
    /\ ~last.ret

\* without debug assertions: a force_insert of the value the key has returns
ReadOnlyForceInsertReturns ==
    /\ read_only
    /\ ~debug_assertions
    /\ last.op = "force_insert"

\* without debug assertions: an insert that reaches its write fails there
ReadOnlyWriteFails ==
    /\ read_only
    /\ ~debug_assertions
    /\ last.op = "insert_failed"

---------------------------------------------------------------------------
(* Claims about choose beyond its result type, checked under SpecCodec *)

\* C(n, k) does not fit u64
ChooseTooLarge == codec.value >= codec.kappa /\ Binomial(codec.value, codec.kappa) >= NarrowMod

\* C21: whenever C(n, k) does not fit u64, choose(n, k) panics, for every k;
\* it never returns a wrapped or truncated value.
ChoosePanicsWhenTooLarge ==
    (codec.op = "choose" /\ ChooseTooLarge) => codec.out = Panic

\* in a build that checks overflow it does: an operation overflows, or the
\* final conversion to u64 fails
ChoosePanicsWhenCheckedAndTooLarge ==
    (codec.op = "choose" /\ ChooseTooLarge) =>
        \/ choose_overflows(codec.value, codec.kappa)
        \/ choose(codec.value, codec.kappa) = Panic

\* the multiplicative branch panics in either build
ChooseLoopPanicsWhenTooLarge ==
    (codec.op = "choose" /\ ChooseTooLarge /\ codec.kappa >= 8) => codec.out = Panic

\* a closed form returns a wrapped value for a binomial that does not fit
ChooseReturnsWrapped ==
    /\ codec.op = "choose"
    /\ ChooseTooLarge
    /\ codec.kappa <= 7
    /\ codec.out # Panic

\* the multiplicative branch panics at its conversion
ChooseLoopPanics ==
    /\ codec.op = "choose"
    /\ ChooseTooLarge
    /\ codec.kappa >= 8
    /\ ~choose_overflows(codec.value, codec.kappa)
    /\ codec.out = Panic

---------------------------------------------------------------------------
(* Claims about rank past its domain, checked under SpecCodec *)

\* rank was given a value past the last pattern of weight kappa
RankOutOfDomain == codec.op = "rank" /\ codec.arg >= Binom(WordBits, codec.kappa)

\* C22: for every kappa, rank(v, kappa) with v >= C(128, kappa) returns 0: no
\* panic, no non-zero pattern.
RankOutOfDomainIsZero == RankOutOfDomain => codec.out = 0

\* C22 as amended: it does for kappa = 1 and kappa = 2, whose tables end in
\* zeros
RankOutOfDomainIsZeroForSmallKappa ==
    (RankOutOfDomain /\ codec.kappa <= 2) => codec.out = 0

\* kappa = 2 past the table: the streaming loop starts on the table's last
\* entry, 0, and returns it
RankOutOfDomainIsZeroForSmallKappaWitness ==
    /\ RankOutOfDomain
    /\ codec.kappa = 2
    /\ codec.arg > MARKER_TABLE_SIZE
    /\ codec.out = 0

\* for kappa >= 3 the first value past the domain gets the last pattern
RankOutOfDomainLastPattern ==
    (RankOutOfDomain /\ codec.kappa >= 3 /\ codec.arg = Binom(WordBits, codec.kappa)) =>
        codec.out = MaxPattern(codec.kappa)

\* and the values after it overflow next_rank: a panic, or a non-zero word
RankOutOfDomainOverflows ==
    (RankOutOfDomain /\ codec.kappa >= 3 /\ codec.arg > Binom(WordBits, codec.kappa)) =>
        /\ rank_overflows(codec.arg, codec.kappa)
        /\ codec.out # 0

\* a non-zero word returned past the domain
RankOutOfDomainNonZero ==
    /\ RankOutOfDomain
    /\ codec.arg > Binom(WordBits, codec.kappa)
    /\ codec.out # Panic
    /\ codec.out # 0

\* a panic past the domain
RankOutOfDomainPanics ==
    /\ RankOutOfDomain
    /\ codec.out = Panic

---------------------------------------------------------------------------
(* Saturation: the member of test_bfield_collisions, one insert, then a     *)
(* lookup of the inserted key                                               *)

\* BFieldMember::create("test", true, 128, 16, 64, 8, None) in the model: a
\* member of twice marker_width bits with 16 hashes
CollisionArgs ==
    [size |-> 2 * (WordBits - 1),
     n_hashes |-> 16,
     marker_width |-> WordBits - 1,
     n_marker_bits |-> 3]

\* every pair murmurhash3_x64_128 can return
CollisionKeys == (0 .. (UsizeMod - 1)) \X (0 .. (UsizeMod - 1))

\* the values of the member's domain, C(marker_width, n_marker_bits) of them
CollisionValues ==
    0 .. (Binom(CollisionArgs.marker_width, CollisionArgs.n_marker_bits) - 1)

InitCollisions ==
    /\ params = create_params(CollisionArgs)
    /\ lazy = LazyUninit
    /\ threads = <<>>
    /\ members = <<member_create(CollisionArgs.size)>>
    /\ read_only = FALSE
    /\ last = NoOp
    /\ inserted = {}
    /\ codec = CodecIdle
    /\ build = BuildIdle
    /\ filenames = create_files(DefaultStem, 1)
    /\ disk = EmptyDir
    /\ debug_assertions = TRUE

\* the one insert
CollisionsInsert ==
    /\ inserted = {}
    /\ \E key \in CollisionKeys, value \in CollisionValues : MemberInsert(key, value)

\* a lookup of the inserted key
CollisionsGet == \E pair \in inserted : MemberGet(pair[1])

NextCollisions == CollisionsInsert \/ CollisionsGet \/ Return

SpecCollisions == InitCollisions /\ [][NextCollisions]_vars

\* the value of the one pair inserted
InsertedValue == (CHOOSE pair \in inserted : TRUE)[2]

\* the offsets of the key's windows
Offsets(m, key) == {marker_pos(key, i, m.size, marker_width) : i \in 0 .. (n_hashes - 1)}

\* C23: after a single insert(key, v) into the empty member, get(key) is
\* Indeterminate, whatever offsets the key hashes to.
SingleInsertSaturates ==
    last.op = "member_get" => last.got = Indeterminate

\* C23 as amended: get(key) is never None; it is Indeterminate only when the
\* key's windows lie at two offsets or more, and Some(w), w the value the
\* key's marker decodes to, when they all lie at one.
SingleInsertIsNeverNone ==
    last.op = "member_get" =>
        /\ last.got \in {Indeterminate, Some(unrank(rank(InsertedValue, n_marker_bits)))}
        /\ Cardinality(Offsets(members[1], last.key)) = 1 => last.got # Indeterminate

\* a key whose 16 windows coincide gets its value back
SingleInsertIsNeverNoneWitness ==
    /\ last.op = "member_get"
    /\ Cardinality(Offsets(members[1], last.key)) = 1
    /\ InsertedValue > 0
    /\ last.got = Some(InsertedValue)

\* a key whose windows lie at several offsets and that gets its value back
SingleInsertSpreadDecided ==
    /\ last.op = "member_get"
    /\ Cardinality(Offsets(members[1], last.key)) > 1
    /\ last.got = Some(InsertedValue)

\* a key whose windows saturate
SingleInsertSaturated ==
    /\ last.op = "member_get"
    /\ last.got = Indeterminate

---------------------------------------------------------------------------
(* First use of the codec from several threads: each thread calls rank, and *)
(* the call dereferences the Lazy cell of MARKER_TABLES.  A thread that     *)
(* finds the cell uninitialized runs the initializer, one table at a time,  *)
(* in a map of its own, and the cell publishes the map when the initializer *)
(* returns; a thread that finds the initializer running waits for it.       *)

Threads == 1 .. NThreads

\* the (kappa, value) pairs the threads call rank with: the first entry of a
\* table, an entry inside one, one of the last table, one past the table
RaceInputs ==
    {<<1, 0>>, <<3, 2>>, <<KappaLimit - 1, 1>>, <<3, MARKER_TABLE_SIZE + 1>>}

lazy_force_unsynchronized(state) == IF state = "ready" THEN "read" ELSE "init"

\* Lazy::force: what a thread does on the state it finds the cell in
lazy_force(state) ==
    CASE state = "uninit" -> "init"
      [] state = "running" -> "wait"
      [] state = "ready" -> "read"

InitRace ==
    /\ members = <<>>
    /\ read_only = FALSE
    /\ last = NoOp
    /\ inserted = {}
    /\ codec = CodecIdle
    /\ build = BuildIdle
    /\ filenames = <<>>
    /\ disk = EmptyDir
    /\ debug_assertions = TRUE
    /\ params = create_params(CreateArgs)
    /\ lazy = LazyUninit
    /\ \E inputs \in [Threads -> RaceInputs] :
          threads = [t \in Threads |->
                        [pc |-> "call", kappa |-> inputs[t][1], value |-> inputs[t][2],
                         m |-> <<>>, waited |-> FALSE, out |-> 0]]

\* thread t reaches MARKER_TABLES[&k] in rank
RaceForce(t) ==
    /\ threads[t].pc = "call"
    /\ LET next == lazy_force(lazy.state)
       IN  /\ threads' = [threads EXCEPT ![t].pc = next, ![t].waited = (next = "wait")]
           /\ lazy' = IF next = "init"
                      THEN [lazy EXCEPT !.state = "running", !.runs = lazy.runs + 1]
                      ELSE lazy
    /\ UNCHANGED <<members, read_only, last, inserted, codec, build, filenames, disk,
                   debug_assertions, params>>

\* one iteration of the initializer's outer loop in thread t: the table of
\* the next kappa is filled and put into the thread's map
RaceFill(t) ==
    /\ threads[t].pc = "init"
    /\ Len(threads[t].m) < KappaLimit - 1
    /\ threads' = [threads EXCEPT
                      ![t].m = Append(threads[t].m,
                                      table_fill(Len(threads[t].m) + 1,
                                                 <<(2 ^ (Len(threads[t].m) + 1)) - 1>>))]
    /\ UNCHANGED <<members, read_only, last, inserted, codec, build, filenames, disk,
                   debug_assertions, params, lazy>>

\* the initializer of thread t returns its map, and the cell holds it
RacePublish(t) ==
    /\ threads[t].pc = "init"
    /\ Len(threads[t].m) = KappaLimit - 1
    /\ lazy' = [lazy EXCEPT !.state = "ready", !.tables = threads[t].m]
    /\ threads' = [threads EXCEPT ![t].pc = "read"]
    /\ UNCHANGED <<members, read_only, last, inserted, codec, build, filenames, disk,
                   debug_assertions, params>>

\* a waiting thread is woken once the cell is ready
RaceWake(t) ==
    /\ threads[t].pc = "wait"
    /\ lazy.state = "ready"
    /\ threads' = [threads EXCEPT ![t].pc = "read"]
    /\ UNCHANGED <<members, read_only, last, inserted, codec, build, filenames, disk,
                   debug_assertions, params, lazy>>

\* thread t runs the body of rank on the tables it sees
RaceRead(t) ==
    /\ threads[t].pc = "read"
    /\ threads' = [threads EXCEPT
                      ![t].out = rank_in(lazy.tables, threads[t].value, threads[t].kappa),
                      ![t].pc = "done"]
    /\ UNCHANGED <<members, read_only, last, inserted, codec, build, filenames, disk,
                   debug_assertions, params, lazy>>

NextRace ==
    \E t \in Threads :
        RaceForce(t) \/ RaceFill(t) \/ RacePublish(t) \/ RaceWake(t) \/ RaceRead(t)

SpecRace == InitRace /\ [][NextRace]_vars

\* C24: the tables are built once, no thread reads tables that are not
\* complete, and every call returns what a single-threaded call returns.
TablesBuiltOnce ==
    /\ lazy.runs <= 1
    /\ \A t \in Threads :
          /\ threads[t].pc \in {"read", "done"} => lazy.tables = MARKER_TABLES
          /\ threads[t].pc = "done" =>
                threads[t].out = rank(threads[t].value, threads[t].kappa)

\* every thread has returned, one of them after waiting for the initializer
\* of another
TablesBuiltOnceWitness ==
    /\ lazy.runs = 1
    /\ \A t \in Threads : threads[t].pc = "done"
    /\ \E t \in Threads : threads[t].waited
    /\ \E t \in Threads : ~threads[t].waited /\ threads[t].m # <<>>

\* a thread waits while the initializer of another has filled some tables
TablesHalfBuilt ==
    \E t, u \in Threads :
        /\ threads[t].pc = "wait"
        /\ threads[u].pc = "init"
        /\ threads[u].m # <<>>
        /\ Len(threads[u].m) < KappaLimit - 1


\* ---------------------------------------------------------------------------
\* Concurrent writers: insert takes &self and BField is Send + Sync, so
\* several threads may run insert_raw on one member at once.  A write to the
\* bit store is a read of the storage units that hold the window, an OR in a
\* register, and a write of those units back, none of it atomic.
\* ---------------------------------------------------------------------------

\* the bits of one storage unit of the bit store (a byte of the mapping)
UnitBits == WordBits \div 2

\* the member the writers share: windows one bit wider than a storage unit
WriterArgs ==
    [size |-> 4 * (UnitBits + 1),
     n_hashes |-> 2,
     marker_width |-> UnitBits + 1,
     n_marker_bits |-> 3]

\* hashed keys: both windows at 0, at marker_width, at twice marker_width,
\* and a key whose two windows differ
WriterKeys ==
    {<<0, 0>>, <<UnitBits + 1, 0>>, <<2 * (UnitBits + 1), 0>>, <<1, 2>>}

WriterValues == {0, 1}

\* the storage units a window of the store touches
units_of(pos, width) ==
    {u \in 0 .. ((pos + width - 1) \div UnitBits) : (u + 1) * UnitBits > pos}

\* the bit positions held by a set of storage units
bits_of(units) == {b \in 0 .. (WriterArgs.size + UnitBits) : (b \div UnitBits) \in units}

\* the window of a key: pos .. pos + marker_width of insert_raw
window(m, key, marker_ix) ==
    LET pos == marker_pos(key, marker_ix, m.size, marker_width)
    IN  pos .. (pos + marker_width - 1)

\* every bit insert_raw may touch for a key
windows(m, key) == UNION {window(m, key, i) : i \in 0 .. (n_hashes - 1)}

\* every storage unit insert_raw may touch for a key
window_units(m, key) ==
    UNION {units_of(marker_pos(key, i, m.size, marker_width), marker_width) :
              i \in 0 .. (n_hashes - 1)}

\* the callers' discipline: "serialized" threads insert one at a time;
\* "partitioned" threads never write the same bit range
InitWriters ==
    /\ params = create_params(WriterArgs)
    /\ lazy = LazyUninit
    /\ members = <<member_create(WriterArgs.size)>>
    /\ \E serialized \in BOOLEAN :
       \E ks \in [Threads -> WriterKeys] :
       \E vs \in [Threads -> WriterValues] :
          /\ serialized
             \/ \A t, u \in Threads :
                   t # u => windows(members[1], ks[t]) \cap windows(members[1], ks[u]) = {}
          /\ threads = [t \in Threads |->
                           [pc |-> "idle", serialized |-> serialized,
                            key |-> ks[t], value |-> vs[t],
                            marker_ix |-> 0, units |-> {}]]
    /\ read_only = FALSE
    /\ last = NoOp
    /\ inserted = {}
    /\ codec = [op |-> "none", k |-> 0, value |-> 0, out |-> 0]
    /\ build = "checked"
    /\ filenames = <<>>
    /\ disk = EmptyDir
    /\ debug_assertions = TRUE

\* a thread calls insert(key, value)
WriterStart(t) ==
    /\ threads[t].pc = "idle"
    /\ threads[t].serialized => \A u \in Threads : threads[u].pc \in {"idle", "done"}
    /\ threads' = [threads EXCEPT ![t].pc = "read"]
    /\ inserted' = inserted \cup {<<threads[t].key, threads[t].value>>}
    /\ UNCHANGED <<members, read_only, last, codec, build, filenames, disk,
                   debug_assertions, params, lazy>>

\* set_range, first half: the storage units of the window are read
WriterReadUnits(t) ==
    /\ threads[t].pc = "read"
    /\ LET m == members[1]
           pos == marker_pos(threads[t].key, threads[t].marker_ix, m.size, marker_width)
       IN  threads' = [threads EXCEPT
                          ![t].pc = "write",
                          ![t].units = m.bitvec \cap bits_of(units_of(pos, marker_width))]
    /\ UNCHANGED <<members, read_only, last, inserted, codec, build, filenames, disk,
                   debug_assertions, params, lazy>>

\* set_range, second half: the units, with the marker ORed in, are written
\* back; then insert_raw's loop goes to the next window
WriterWriteUnits(t) ==
    /\ threads[t].pc = "write"
    /\ LET m == members[1]
           pos == marker_pos(threads[t].key, threads[t].marker_ix, m.size, marker_width)
           marker == rank(threads[t].value, n_marker_bits)
           held == bits_of(units_of(pos, marker_width))
           written == set_range(threads[t].units, pos, marker_width, marker)
       IN  /\ members' = <<[m EXCEPT !.bitvec = (m.bitvec \ held) \cup written]>>
           /\ threads' = [threads EXCEPT
                             ![t].marker_ix = threads[t].marker_ix + 1,
                             ![t].units = {},
                             ![t].pc = IF threads[t].marker_ix + 1 >= n_hashes
                                       THEN "done" ELSE "read"]
    /\ UNCHANGED <<read_only, last, inserted, codec, build, filenames, disk,
                   debug_assertions, params, lazy>>

NextWriters ==
    \E t \in Threads : WriterStart(t) \/ WriterReadUnits(t) \/ WriterWriteUnits(t)

SpecWriters == InitWriters /\ [][NextWriters]_vars

WritersDone == \A t \in Threads : threads[t].pc = "done"

WritersPartitionedByUnit ==
    \A t, u \in Threads :
        t # u => window_units(members[1], threads[t].key)
                     \cap window_units(members[1], threads[u].key) = {}

\* C25 (checked under SpecWriters): when the inserts of several threads are
\* serialized, or partitioned so that no two threads write the same bit
\* range, the store after all of them is the store of the same inserts made
\* one after another: no one-bit is lost.
WritersLoseNoBit ==
    WritersDone =>
        members[1] = insert_all(member_create(WriterArgs.size), inserted)

\* C25 (checked under SpecWriters): serialized inserts lose no bit.
SerializedWritersLoseNoBit ==
    (WritersDone /\ \A t \in Threads : threads[t].serialized) =>
        members[1] = insert_all(member_create(WriterArgs.size), inserted)

\* C25 (checked under SpecWriters): inserts partitioned so that no two
\* threads write the same storage unit lose no bit.
UnitPartitionedWritersLoseNoBit ==
    (WritersDone /\ WritersPartitionedByUnit) =>
        members[1] = insert_all(member_create(WriterArgs.size), inserted)

\* two unserialized threads whose windows share no bit but share a storage
\* unit have finished, and a one-bit of the sequential store is missing
WritersLostBit ==
    /\ WritersDone
    /\ \A t \in Threads : ~threads[t].serialized
    /\ \A t, u \in Threads :
          t # u => windows(members[1], threads[t].key)
                       \cap windows(members[1], threads[u].key) = {}
    /\ insert_all(member_create(WriterArgs.size), inserted).bitvec \ members[1].bitvec # {}

\* serialized threads with overlapping windows have all finished
WritersSerializedDone ==
    /\ WritersDone
    /\ \A t \in Threads : threads[t].serialized
    /\ \E t, u \in Threads :
          t # u /\ windows(members[1], threads[t].key)
                       \cap windows(members[1], threads[u].key) # {}
    /\ members[1].bitvec # {}


\* ---------------------------------------------------------------------------
\* BField::create over its arguments: the number and the sizes of the members
\* it makes, and the calls a caller can make on what it returns.
\* ---------------------------------------------------------------------------

\* the largest n_secondaries tried
MaxSecondaries == 4

\* the arguments of the create call in the documentation's example:
\* size 1000000, secondary_scaledown 0.1, max_scaledown 0.025, 4 members
ExampleArgs ==
    [size |-> 1000000,
     n_hashes |-> 2,
     marker_width |-> WordBits - 1,
     n_marker_bits |-> 3,
     secondary_scaledown |-> <<1, 10>>,
     max_scaledown |-> <<1, 40>>,
     n_secondaries |-> 4]

\* create calls: a primary size above marker_width, scale factors in (0, 1]
\* and 0 .. MaxSecondaries members
CreateInputs ==
    {ExampleArgs} \cup
    [size : {WordBits, (WordBits - 1) + PrimarySpan, 4 * (WordBits - 1)},
     n_hashes : {2},
     marker_width : {WordBits - 1},
     n_marker_bits : {3},
     secondary_scaledown : {<<9, 10>>, <<1, 2>>, <<1, 10>>},
     max_scaledown : {<<1, 4>>, <<1, 40>>},
     n_secondaries : 0 .. MaxSecondaries]

\* BFieldMember::info(): (size, n_hashes, marker_width, n_marker_bits)
info(m) == <<m.size, n_hashes, marker_width, n_marker_bits>>

\* a call that panics instead of returning
Panicked == <<"Panicked", 0>>

\* self.members[0]: indexing an empty Vec panics
first_member(ms) == IF ms = <<>> THEN Panicked ELSE <<"Member", ms[1]>>

\* BField::build_params(): (n_hashes, marker_width, n_marker_bits, sizes)
build_params(ms) ==
    IF first_member(ms) = Panicked THEN Panicked
    ELSE <<info(ms[1])[2], info(ms[1])[3], info(ms[1])[4],
           [i \in 1 .. Len(ms) |-> info(ms[i])[1]]>>

\* BField::params() and BField::mock_params(): both go through members[0]
params_call(ms) == IF first_member(ms) = Panicked THEN Panicked ELSE <<"Other", 0>>

\* marker_pos takes hash % (total_size - marker_size): with total_size equal
\* to marker_size the remainder has a zero divisor, and with total_size below
\* it the subtraction overflows (or, wrapped, leaves every window outside the
\* store); either way the call does not return
marker_pos_defined(total_size, marker_size) == total_size > marker_size

\* BFieldMember::get(key), or Panicked when marker_pos is not defined
member_get_or_panic(m, key) ==
    IF marker_pos_defined(m.size, marker_width) THEN member_get(m, key) ELSE Panicked

\* the loop of BField::get from member j on, with the panics of marker_pos
RECURSIVE get_or_panic_from(_, _, _)
get_or_panic_from(ms, key, j) ==
    IF j >= Len(ms) THEN None
    ELSE LET answer == member_get_or_panic(ms[j + 1], key)
         IN  IF answer = Indeterminate THEN get_or_panic_from(ms, key, j + 1)
             ELSE answer

\* BField::get(key), with the panics of marker_pos
get_or_panic(ms, key) == get_or_panic_from(ms, key, 0)

\* BField::insert(key, value, 0) on a new cascade: members[0].insert, Panicked
\* when there is no member 0 or its marker_pos is not defined
insert_or_panic(ms, key, value) ==
    IF first_member(ms) = Panicked THEN Panicked
    ELSE IF ~marker_pos_defined(ms[1].size, marker_width) THEN Panicked
    ELSE <<"Members", [ms EXCEPT ![1] = member_insert(ms[1], key, value)]>>

InitCreate ==
    /\ members = <<>>
    /\ build \in [args : CreateInputs, created : {FALSE}]
    /\ params = create_params(build.args)
    /\ read_only = FALSE
    /\ last = NoOp
    /\ inserted = {}
    /\ codec = CodecIdle
    /\ filenames = <<>>
    /\ disk = EmptyDir
    /\ debug_assertions = TRUE
    /\ lazy = LazyUninit
    /\ threads = <<>>

\* BField::create(directory, filename, size, ...) in memory
Create ==
    /\ ~build.created
    /\ members' = bfield_create(build.args)
    /\ params' = create_params(build.args)
    /\ filenames' = create_files(DefaultStem, build.args.n_secondaries)
    /\ build' = [build EXCEPT !.created = TRUE]
    /\ read_only' = FALSE
    /\ last' = [NoOp EXCEPT !.op = "create", !.ret = TRUE]
    /\ UNCHANGED <<inserted, codec, disk, debug_assertions, lazy, threads>>

\* bfield.build_params()
CreatedBuildParams ==
    /\ build.created
    /\ last.op = "none"
    /\ last' = [NoOp EXCEPT !.op = "build_params", !.got = build_params(members)]
    /\ UNCHANGED <<members, read_only, inserted, codec, build, filenames, disk,
                   debug_assertions, params, lazy, threads>>

\* bfield.params(), bfield.mock_params(..)
CreatedParams ==
    /\ build.created
    /\ last.op = "none"
    /\ last' = [NoOp EXCEPT !.op = "params", !.got = params_call(members)]
    /\ UNCHANGED <<members, read_only, inserted, codec, build, filenames, disk,
                   debug_assertions, params, lazy, threads>>

\* bfield.get(key)
CreatedGet(key) ==
    /\ build.created
    /\ last.op = "none"
    /\ last' = [NoOp EXCEPT !.op = "get", !.key = key,
                            !.got = get_or_panic(members, key), !.pre = members]
    /\ UNCHANGED <<members, read_only, inserted, codec, build, filenames, disk,
                   debug_assertions, params, lazy, threads>>

\* bfield.insert(key, value, 0)
CreatedInsert(key, value) ==
    /\ build.created
    /\ last.op = "none"
    /\ LET after == insert_or_panic(members, key, value)
       IN  /\ members' = IF after = Panicked THEN members ELSE after[2]
           /\ inserted' = IF after = Panicked THEN inserted
                          ELSE inserted \cup {<<key, value>>}
           /\ last' = [NoOp EXCEPT !.op = "insert", !.key = key, !.value = value,
                                   !.ret = (after # Panicked),
                                   !.got = IF after = Panicked THEN Panicked ELSE None,
                                   !.pre = members]
    /\ UNCHANGED <<read_only, codec, build, filenames, disk,
                   debug_assertions, params, lazy, threads>>

NextCreate ==
    \/ Create
    \/ CreatedBuildParams
    \/ CreatedParams
    \/ \E key \in Keys : CreatedGet(key)
    \/ \E key \in Keys : CreatedInsert(key, 0)
    \/ Return

SpecCreate == InitCreate /\ [][NextCreate]_vars

\* q = floor(x * num / den), said without division
IsFloorOfProduct(q, x, factor) ==
    /\ q * factor[2] <= x * factor[1]
    /\ x * factor[1] < (q + 1) * factor[2]

\* q >= floor(x * num / den)
AtLeastFloorOfProduct(q, x, factor) == x * factor[1] < (q + 1) * factor[2]

\* s = max(floor(prev * beta), floor(s_0 * beta_max))
IsClaimedSize(s, prev, args) ==
    /\ \/ IsFloorOfProduct(s, prev, args.secondary_scaledown)
       \/ IsFloorOfProduct(s, args.size, args.max_scaledown)
    /\ AtLeastFloorOfProduct(s, prev, args.secondary_scaledown)
    /\ AtLeastFloorOfProduct(s, args.size, args.max_scaledown)

\* the sizes s_0 = size, s_i = max(floor(s_{i-1} * beta), floor(s_0 * beta_max))
AreClaimedSizes(sizes, args) ==
    \A i \in 1 .. Len(sizes) :
        IF i = 1 THEN sizes[i] = args.size
        ELSE IsClaimedSize(sizes[i], sizes[i - 1], args)

\* C26 (checked under SpecCreate): create makes exactly n_secondaries
\* members, member i of size s_i with s_0 = size and
\* s_i = max(floor(s_{i-1} * secondary_scaledown), floor(s_0 * max_scaledown)),
\* and build_params of a cascade with a member 0 reports those sizes in
\* member order, each being the size info gives.
CreateSizes ==
    build.created =>
        /\ Len(members) = build.args.n_secondaries
        /\ AreClaimedSizes([i \in 1 .. Len(members) |-> members[i].size], build.args)
        /\ AreClaimedSizes([i \in 1 .. Len(members) |-> info(members[i])[1]], build.args)
        /\ (last.op = "build_params" /\ build.args.n_secondaries >= 1) =>
              /\ last.got # Panicked
              /\ Len(last.got[4]) = build.args.n_secondaries
              /\ AreClaimedSizes(last.got[4], build.args)

\* build_params has answered for a cascade whose sizes fall by the factor
\* first and are held by the floor afterwards
CreateSizesWitness ==
    /\ build.created
    /\ last.op = "build_params"
    /\ last.got # Panicked
    /\ Len(members) = MaxSecondaries
    /\ \E i \in 2 .. Len(members) :
          /\ IsFloorOfProduct(members[i].size, members[i - 1].size,
                              build.args.secondary_scaledown)
          /\ ~IsFloorOfProduct(members[i].size, build.args.size, build.args.max_scaledown)
    /\ \E i \in 2 .. Len(members) :
          /\ IsFloorOfProduct(members[i].size, build.args.size, build.args.max_scaledown)
          /\ ~IsFloorOfProduct(members[i].size, members[i - 1].size,
                               build.args.secondary_scaledown)

\* C26 (checked under SpecCreate): the documentation's example, size
\* 1000000 with factors 0.1 and 0.025 and 4 members, gives the sizes
\* 1000000, 100000, 25000, 25000.
CreateSizesExample ==
    (build.created /\ build.args = ExampleArgs) =>
        [i \in 1 .. Len(members) |-> members[i].size] = <<1000000, 100000, 25000, 25000>>

\* the example's cascade has been created and asked for its build_params
CreateSizesExampleWitness ==
    /\ build.created
    /\ build.args = ExampleArgs
    /\ last.op = "build_params"
    /\ last.got = <<2, WordBits - 1, 3, <<1000000, 100000, 25000, 25000>>>>


\* C27 (checked under SpecCreate): a cascade returned by create, whatever
\* the accepted arguments (n_secondaries = 0 included), has at least one
\* member, so build_params, params and mock_params are defined.
CreatedHasMembers ==
    build.created =>
        /\ members # <<>>
        /\ last.op \in {"build_params", "params"} => last.got # Panicked

\* C27 (checked under SpecCreate): create makes no member exactly when it is
\* called with n_secondaries = 0, and then build_params and params panic.
CreatedEmptyOnlyWithoutSecondaries ==
    build.created =>
        /\ (members = <<>>) <=> (build.args.n_secondaries = 0)
        /\ (last.op \in {"build_params", "params"}) =>
              ((last.got = Panicked) <=> (build.args.n_secondaries = 0))

\* create was called with n_secondaries = 0, returned a cascade without
\* members, and build_params panicked on it
CreatedEmptyPanics ==
    /\ build.created
    /\ build.args.n_secondaries = 0
    /\ members = <<>>
    /\ last.op = "build_params"
    /\ last.got = Panicked

\* C27 (checked under SpecLoad): a cascade returned by load has at least one
\* member.
LoadedHasMembers == (last.op = "load" /\ last.ret) => members # <<>>

\* a load has returned a cascade
LoadedHasMembersWitness == last.op = "load" /\ last.ret /\ Len(members) >= 1


\* C28 (checked under SpecCreate): every member of a created cascade, the
\* scaled-down secondaries included, has size > marker_width, so marker_pos
\* never takes a remainder by zero or subtracts below zero in insert and get.
CreatedMembersAreWider ==
    build.created =>
        /\ \A i \in 1 .. Len(members) :
              marker_pos_defined(members[i].size, marker_width)
        /\ last.op \in {"get", "insert"} =>
              (last.got = Panicked => last.pre = <<>>)

\* C28 (checked under SpecCreate): member 0 of a created cascade has
\* size > marker_width whenever the size argument has, and insert into it
\* returns.
CreatedPrimaryIsWider ==
    (build.created /\ members # <<>>) =>
        /\ marker_pos_defined(members[1].size, marker_width)
        /\ last.op = "insert" => last.got # Panicked

\* a key's get went through an Indeterminate member 0 to a secondary member
\* no wider than a marker, and panicked there
CreatedGetPanicsInSecondary ==
    /\ build.created
    /\ last.op = "get"
    /\ last.got = Panicked
    /\ Len(last.pre) >= 2
    /\ member_get(last.pre[1], last.key) = Indeterminate
    /\ ~marker_pos_defined(last.pre[2].size, marker_width)

\* a secondary member as wide as a marker: the divisor of marker_pos is zero
CreatedSecondaryOfMarkerWidth ==
    /\ build.created
    /\ \E i \in 2 .. Len(members) : members[i].size = marker_width


\* the bits of the key's windows
OffsetWindows(m, key) ==
    UNION {o .. (o + marker_width - 1) : o \in Offsets(m, key)}

\* the marker a call has just written for its key, 0 when it wrote none
WrittenMarker ==
    IF last.op = "member_insert" THEN rank(last.value, n_marker_bits)
    ELSE IF last.op = "mask_or_insert" /\ last.ret /\ members # last.pre
         THEN rank(last.value, n_marker_bits)
         ELSE 0

\* C29 (checked under SpecMember): in a member with size > marker_width,
\* for every hash pair and every i in 0 .. n_hashes - 1 the offset lies in
\* [0, size - marker_width), so the window lies inside the bit array; insert
\* and mask_or_insert write only inside the windows of their key, and
\* get_raw (asked for the whole intersection, k = 0) reads back, at its
\* offsets for the same key, the marker they wrote.
OffsetsInsideStore ==
    LET m == members[1]
    IN  /\ m.size > marker_width
        /\ \A key \in CollisionKeys : \A i \in 0 .. (n_hashes - 1) :
              LET offset == marker_pos(key, i, m.size, marker_width)
              IN  /\ 0 <= offset
                  /\ offset < m.size - marker_width
                  /\ (offset .. (offset + marker_width - 1)) \subseteq 0 .. (m.size - 1)
        /\ m.bitvec \subseteq 0 .. (m.size - 1)
        /\ last.op \in {"member_insert", "mask_or_insert"} =>
              /\ (m.bitvec \ last.pre[1].bitvec) \subseteq OffsetWindows(m, last.key)
              /\ BitAnd(get_raw(m, last.key, 0), WrittenMarker) = WrittenMarker

\* an insert and a mask_or_insert have each written a marker into windows
\* that differ, and some key has the largest offset, size - marker_width - 1
OffsetsInsideStoreWitness ==
    LET m == members[1]
    IN  /\ last.op \in {"member_insert", "mask_or_insert"}
        /\ WrittenMarker # 0
        /\ m.bitvec # last.pre[1].bitvec
        /\ Cardinality(Offsets(m, last.key)) = n_hashes
        /\ \E key \in CollisionKeys : \E i \in 0 .. (n_hashes - 1) :
              marker_pos(key, i, m.size, marker_width) = m.size - marker_width - 1

\* C29 (checked under SpecCreate): in every member of a created cascade that
\* has size > marker_width, every offset lies in [0, size - marker_width).
OffsetsInsideCreatedMembers ==
    \A j \in 1 .. Len(members) :
        members[j].size > marker_width =>
            \A key \in CollisionKeys : \A i \in 0 .. (n_hashes - 1) :
                marker_pos(key, i, members[j].size, marker_width)
                    \in 0 .. (members[j].size - marker_width - 1)

\* a created cascade has members of different sizes above marker_width
OffsetsInsideCreatedMembersWitness ==
    /\ build.created
    /\ \E j, l \in 1 .. Len(members) :
          /\ members[j].size > members[l].size
          /\ members[l].size > marker_width


\* the AND of merged with the key's windows marker_ix .. upto - 1, every
\* one of them taken
RECURSIVE IntersectionUpTo(_, _, _, _, _)
IntersectionUpTo(m, key, merged, marker_ix, upto) ==
    IF marker_ix >= upto THEN merged
    ELSE IntersectionUpTo(
             m, key,
             BitAnd(merged, get_range(m.bitvec, marker_pos(key, marker_ix, m.size, marker_width),
                                      marker_width)),
             marker_ix + 1, upto)

\* the AND of all the key's windows
FullIntersection(m, key) == IntersectionUpTo(m, key, WordMax, 0, n_hashes)

\* get_raw stops before the key's last window: the AND of the windows up to
\* an earlier one has fewer than n_marker_bits one-bits
ExitsEarly(m, key) ==
    \E upto \in 1 .. (n_hashes - 1) :
        count_ones(IntersectionUpTo(m, key, WordMax, 0, upto)) < n_marker_bits

\* C30 (checked under SpecMember): for every state of the member and every
\* key, get answers Indeterminate, Some(unrank(merged)) or None as the AND of
\* all n_hashes windows has more than, exactly, or fewer than n_marker_bits
\* one-bits; get_raw returns that AND or, after an early exit, 0, and an
\* early exit is always answered None.
EarlyExitKeepsAnswer ==
    \A key \in Keys :
        LET m == members[1]
            merged == FullIntersection(m, key)
            raw == get_raw(m, key, n_marker_bits)
            answer == member_get(m, key)
        IN  /\ count_ones(merged) > n_marker_bits => answer = Indeterminate
            /\ count_ones(merged) = n_marker_bits => answer = Some(unrank(merged))
            /\ count_ones(merged) < n_marker_bits => answer = None
            /\ raw \in {0, merged}
            /\ count_ones(merged) >= n_marker_bits => raw = merged
            /\ ExitsEarly(m, key) => (raw = 0 /\ answer = None)

\* a get has stopped after a first window with too few one-bits although
\* the key's second window, elsewhere in the store, has more; another key of
\* the same store is decided
EarlyExitKeepsAnswerWitness ==
    LET m == members[1]
        first == get_range(m.bitvec, marker_pos(last.key, 0, m.size, marker_width),
                           marker_width)
        second == get_range(m.bitvec, marker_pos(last.key, 1, m.size, marker_width),
                            marker_width)
    IN  /\ last.op = "member_get"
        /\ last.got = None
        /\ ExitsEarly(m, last.key)
        /\ count_ones(second) > count_ones(first)
        /\ \E key \in Keys : member_get(m, key)[1] = "Some"


\* keys whose two offsets take every pair of values in 0 .. PrimarySpan - 1
ObservedKeys == (0 .. (PrimarySpan - 1)) \X (0 .. (PrimarySpan - 1))

\* C31 (checked under SpecMember): Indeterminate is absorbing in a member:
\* over every insert and mask_or_insert, on any key, a key answered
\* Indeterminate before the call is answered Indeterminate after it, and a
\* key answered Some or Indeterminate before is not answered None after.
IndeterminateIsAbsorbing ==
    [][\/ members' = members
       \/ \A key \in ObservedKeys :
             LET before == member_get(members[1], key)
                 after == member_get(members'[1], key)
             IN  /\ before = Indeterminate => after = Indeterminate
                 /\ before # None => after # None]_vars

\* a call has added bits to a store in which one key was already
\* Indeterminate and still is, and has turned another key from Some to
\* Indeterminate
IndeterminateIsAbsorbingWitness ==
    /\ last.op \in {"member_insert", "mask_or_insert"}
    /\ members # last.pre
    /\ \E key \in ObservedKeys :
          /\ member_get(last.pre[1], key) = Indeterminate
          /\ member_get(members[1], key) = Indeterminate
    /\ \E key \in ObservedKeys :
          /\ member_get(last.pre[1], key)[1] = "Some"
          /\ member_get(members[1], key) = Indeterminate

\* a mask_or_insert has masked a key: answered Some before, Indeterminate after
MaskedKeyIsIndeterminate ==
    /\ last.op = "mask_or_insert"
    /\ ~last.ret
    /\ member_get(last.pre[1], last.key)[1] = "Some"
    /\ member_get(members[1], last.key) = Indeterminate


---------------------------------------------------------------------------
(* The bit count of a member under insert: test_bfield_bits_set            *)

\* the member of the test, scaled: two windows a key, in a store of three
\* marker widths
BitsArgs ==
    [size |-> 3 * (WordBits - 1),
     n_hashes |-> 2,
     marker_width |-> WordBits - 1,
     n_marker_bits |-> 3]

\* hashed keys: windows that coincide, windows apart, windows apart
\* elsewhere in the store, and windows one bit apart
BitsKeys == {<<0, 0>>, <<0, 5>>, <<8, 3>>, <<3, 1>>}

\* in-domain values
BitsValues == {0, 1}

InitBits ==
    /\ members = <<member_create(BitsArgs.size)>>
    /\ read_only = FALSE
    /\ last = NoOp
    /\ inserted = {}
    /\ codec = CodecIdle
    /\ build = BuildIdle
    /\ filenames = create_files(DefaultStem, 1)
    /\ disk = EmptyDir
    /\ debug_assertions = TRUE
    /\ params = create_params(BitsArgs)
    /\ lazy = LazyUninit
    /\ threads = <<>>

\* bfield.bitvec.rank(0 .. size): the number of one-bits of the store
bits_set(m) == Cardinality(m.bitvec)

NextBits ==
    \/ \E key \in BitsKeys, value \in BitsValues : MemberInsert(key, value)
    \/ \E key \in BitsKeys : MemberGet(key)
    \/ Return

SpecBits == InitBits /\ [][NextBits]_vars

\* the positions at which window i of the key takes the one-bits of the marker
WindowMarkerBits(m, key, marker, i) ==
    set_range({}, marker_pos(key, i, m.size, marker_width), marker_width, marker)

\* the marker goes to positions that are all zero, and no position belongs
\* to two of the key's windows
FreshAndApart(m, key, marker) ==
    /\ \A i \in 0 .. (n_hashes - 1) : WindowMarkerBits(m, key, marker, i) \cap m.bitvec = {}
    /\ \A i, j \in 0 .. (n_hashes - 1) :
          i # j => WindowMarkerBits(m, key, marker, i) \cap WindowMarkerBits(m, key, marker, j) = {}

\* C32 (checked under SpecBits): one insert(key, v) with an in-domain value
\* raises the bit count of the member by at most n_hashes * n_marker_bits,
\* and by exactly that when the marker goes to positions that were all zero
\* and the key's windows do not coincide there; after the inserts of m pairs
\* into the empty member the count is at most m * n_hashes * n_marker_bits.
BitsSetAccounting ==
    /\ bits_set(members[1]) <= Cardinality(inserted) * n_hashes * n_marker_bits
    /\ last.op = "member_insert" =>
          LET before == last.pre[1]
              marker == rank(last.value, n_marker_bits)
              gained == bits_set(members[1]) - bits_set(before)
          IN  /\ 0 <= gained
              /\ gained <= n_hashes * n_marker_bits
              /\ FreshAndApart(before, last.key, marker)
                    => gained = n_hashes * n_marker_bits

\* a first insert has set n_hashes * n_marker_bits bits
BitsSetAccountingWitness ==
    /\ last.op = "member_insert"
    /\ last.pre[1].bitvec = {}
    /\ FreshAndApart(last.pre[1], last.key, rank(last.value, n_marker_bits))
    /\ bits_set(members[1]) = n_hashes * n_marker_bits

\* a third pair has been inserted and the count is below 3 * n_hashes *
\* n_marker_bits because windows overlap
BitsSetOverlap ==
    /\ last.op = "member_insert"
    /\ Cardinality(inserted) = 3
    /\ members # last.pre
    /\ bits_set(members[1]) < 3 * n_hashes * n_marker_bits

\* an insert into a store that is not empty has set exactly n_hashes *
\* n_marker_bits new bits
BitsSetSecondExact ==
    /\ last.op = "member_insert"
    /\ last.pre[1].bitvec # {}
    /\ bits_set(members[1]) - bits_set(last.pre[1]) = n_hashes * n_marker_bits

===========================================================================
